---------------------------- MODULE Spec2Model ----------------------------
(***************************************************************************)
(* A model of logd (autonomists/logd):                                     *)
(*                                                                         *)
(*   SpecQ  the EventQ of src/events/events.go: the event loop, its        *)
(*          handlers, the subscriptions and the reader channels;           *)
(*   SpecH  the Handlers multiplexer of src/unnamed/part_001: the topic    *)
(*          map, its mutex and the routing of requests to queues;          *)
(*   SpecB  the BATCH offsets that src/unnamed/part_002 tests, over the    *)
(*          partition store described in spec.md 4.2;                      *)
(*   SpecW  the chunk stream: sendChunk, +EOF and the broadcasts on the    *)
(*          wire, and the Scanner of src/protocol/scanner.go reading it;   *)
(*   SpecC  the connection loop of src/server/socket.go.                   *)
(***************************************************************************)
EXTENDS Integers, Sequences, FiniteSets, TLC

\* ------------------------------------------------------------------ bounds

\* commands pushed to the event queue in one behaviour
MaxCmds == 3
\* capacity of q.in in the model (1000 in NewEventQ)
InCap == 1
\* capacity of a reader channel in the model (1000 in doRead)
ReaderCap == 2
\* records a log partition holds in the model (PartitionSize in the config)
PartRecs == 2
\* PushRequest calls in one behaviour
MaxReqs == 3
\* BATCH requests in one behaviour
MaxBatches == 4
\* wire bytes of the longest batch
MaxLen == 3
\* PartitionSize and MaxPartitions of the config, in the model
PartitionSize == 4
MaxPartitions == 2
\* lines the server puts on the wire of one connection in one behaviour
MaxWire == 4
\* log lines in the largest log file
MaxFile == 3
\* commands read from one connection in one behaviour
MaxConnCmds == 3

Conns == {"c1", "c2"}

CmdIds == 1..MaxCmds

\* ------------------------------------------------------------------ state

VARIABLES
    \* EventQ (src/events/events.go)
    nextCmd,        \* id of the next command a caller pushes
    in,             \* q.in: the queued commands
    pc,             \* where the event loop is: idle, waitReady, blocked, stopped, panicked
    cur,            \* the command the loop is handling
    ready,          \* the listener has signalled ready for cur
    pending,        \* the channel operations the blocked handler still has to do
    currID,         \* q.currID
    log,            \* q.log: the records written, in file order
    logOpen,        \* the log has not been shut down
    subscriptions,  \* q.subscriptions: ConnID -> Subscription
    readerC,        \* resp.ReaderC of every read command: the items in the channel
    recv,           \* the items the listener has taken from each reader channel
    RespC,          \* cmd.RespC of every command: the responses sent on it
    done,           \* cmd.Done of every read command has been signalled
    finished,       \* how often cmd.Finish() was called for each command
    committed,      \* the messages of successful write commands, in commit order
    reads,          \* what doRead did for each read command
    listener,       \* the listener of each read: draining, cancelled, failed or gone
    expired         \* the commands whose cmdCtx deadline has passed

VARIABLES
    \* Handlers (src/unnamed/part_001)
    h,              \* h.h: topic -> event queue
    nq,             \* the event queues made so far by newEventQ, the asyncQ not counted
    started,        \* the queues whose GoStart succeeded, each with its topic
    topics,         \* h.topics: the topics of the registry
    mu,             \* h.mu: the thread that holds it, or "free"
    tpc,            \* where each connection thread is in PushRequest
    treq,           \* the request each thread is pushing
    inq,            \* the inbound channel of every queue
    ncalls,         \* PushRequest calls so far
    pushed,         \* which request was pushed to which queue
    returned        \* the PushRequest calls that have returned, with or without error

qvars == <<nextCmd, in, pc, cur, ready, pending, currID, log, logOpen,
           subscriptions, readerC, recv, RespC, done, finished, committed, reads,
           listener, expired>>

VARIABLES
    \* the BATCH offsets of one topic's queue (src/unnamed/part_002, spec.md 4.2)
    parts,          \* the partitions: starting offset and size, oldest first
    logw,           \* the log writer installed: mock or discard
    written,        \* the bytes the mock writer holds
    offsets,        \* the offsets the successful BATCHes were answered with
    lens,           \* the wire lengths of the accepted batches
    nbatch          \* BATCH requests so far

bvars == <<parts, logw, written, offsets, lens, nbatch>>

VARIABLES
    \* the chunk stream of one reading connection (src/events/events.go,
    \* src/protocol/scanner.go); sizes are counted in log lines of one length
    wire,           \* the lines written to the connection and not yet scanned
    emitted,        \* lines written to the connection so far
    sentChunks,     \* what every sendChunk announced and what its reader delivered
    chunkEnd,       \* ps.chunkEnd
    ChunkPos,       \* ps.ChunkPos
    serr,           \* ps.err
    smsg,           \* ps.msg is set
    scanned,        \* the calls of Scan that returned true
    spc             \* the client's loop over Scan: scanning, or done after a false

wvars == <<wire, emitted, sentChunks, chunkEnd, ChunkPos, serr, smsg, scanned, spc>>

VARIABLES
    \* one connection of the socket server (src/server/socket.go)
    cpc,            \* where handleConnection is: read, exec or closed
    heard,          \* what readCommand has read from the connection, in order
    wrote,          \* the statuses of the responses written to the connection
    shutting        \* s.isShuttingDown()

cvars == <<cpc, heard, wrote, shutting>>

VARIABLES
    \* package-level eventQ (src/events.go)
    pkgCurrID,      \* q.currID
    pkgLog,         \* q.log: the ids of the messages written, in file order
    pkgSubs,        \* q.subscriptions: the subscribed connections
    pkgWrites,      \* number of write commands handled
    senders,        \* the goroutines handleMsg started that still have messages to send
    got             \* per connection: what its goroutine received from msgC

pvars == <<pkgCurrID, pkgLog, pkgSubs, pkgWrites, senders, got>>

VARIABLES
    \* EventQ.Stop (src/events/events.go)
    stopReturned    \* a call of Stop has returned

svars == <<stopReturned>>

VARIABLES
    \* Socket (src/server/socket.go): accept, listenAndServe, shutdown, Stop
    sockPc,         \* Stop and shutdown: serving, flag, qstop, snapshot, removing, stopped
    shuttingDown,   \* s.shuttingDown
    qStopped,       \* s.q.Stop() has been called
    conns,          \* s.conns
    connIn,         \* s.connIn: accepted connections not yet given a handler
    handlers,       \* the connections whose handleConnection is running
    toRemove,       \* shutdown: the goroutines started for the connections it found
    acceptPc,       \* accept: top, accept, check, add, exited
    rawConn,        \* accept: the connection ln.Accept returned
    naccepted       \* connections accepted so far

kvars == <<sockPc, shuttingDown, qStopped, conns, connIn, handlers, toRemove,
           acceptPc, rawConn, naccepted>>

VARIABLES
    \* Handlers.Start and Handlers.Stop (src/unnamed/part_001)
    shutdownC,      \* h.shutdownC: the values in its buffer
    startPc,        \* the caller of Start: none, blocked or returned
    stopPc,         \* each caller of Stop: idle, running, sending or returned
    stopped,        \* per call of Stop: the components it has stopped, in order
    failed,         \* per call of Stop: the components whose stop returned an error
    firstErr,       \* per call of Stop: its variable firstErr
    signals         \* number of values Stop has sent on shutdownC

tvars == <<shutdownC, startPc, stopPc, stopped, failed, firstErr, signals>>

VARIABLES
    \* client Writer (src/client/writer.go)
    batch,          \* w.batch: the messages pending
    wmu,            \* w.mu: "free" or the goroutine that holds it
    flpc,           \* the flusher goroutine: select, flush or signal
    flsync,         \* flushPending's argument sync
    flby,           \* the caller whose send on flushSyncC the flusher took
    flerr,          \* the error flushPending passes to signalReadySync
    wpc,            \* each caller: idle, wsignal, wwait, wrelock, fsignal, fwait
    wmsg,           \* each caller: the message of its Write
    wres,           \* each caller: the results its current call received
    flushLog,       \* every flushPending so far: who asked, what was sent, the result
    wcalls          \* calls of Write and Flush so far

fvars == <<batch, wmu, flpc, flsync, flby, flerr, wpc, wmsg, wres, flushLog, wcalls>>

hvars == <<h, nq, started, topics, mu, tpc, treq, inq, ncalls, pushed, returned>>

\* ------------------------------------------------------------ small helpers

Last(s) == s[Len(s)]

RECURSIVE SeqSum(_)
SeqSum(s) == IF s = <<>> THEN 0 ELSE Head(s) + SeqSum(Tail(s))

IsPrefix(s, t) == Len(s) <= Len(t) /\ SubSeq(t, 1, Len(s)) = s

\* the orders in which a Go range over a map with these keys can visit them
Orders(S) == { o \in [1..Cardinality(S) -> S] : \A i, j \in DOMAIN o : i # j => o[i] # o[j] }

\* ------------------------------------------------------------ protocol

\* protocol.ParseNumber: the decimal value of an argument, -1 for an error
ParseNumber(a) ==
    CASE a = "0" -> 0
      [] a = "1" -> 1
      [] a = "2" -> 2
      [] a = "3" -> 3
      [] OTHER -> -1

NoCmd == [id |-> 0, name |-> "NONE", args |-> <<>>, conn |-> "c1"]

\* the commands a caller can push
Templates ==
    [name : {"MSG"}, args : { <<>>, <<"x", "x">>, <<"x", "">> }, conn : {"c1"}]
    \cup [name : {"READ"}, args : { <<"1", "0">>, <<"1", "1">>, <<"2", "0">>, <<"z", "0">> },
          conn : {"c1"}]
    \cup [name : {"REPLICATE"}, args : { <<"1">>, <<>> }, conn : {"c2"}]
    \cup [name : {"HEAD"}, args : { <<>>, <<"x">> }, conn : {"c1"}]
    \cup [name : {"STATS", "PING"}, args : { <<>> }, conn : {"c1"}]
    \cup [name : {"CLOSE"}, args : { <<>> }, conn : Conns]
    \cup [name : {"CLOSE"}, args : { <<"x">> }, conn : {"c1"}]
    \cup [name : {"SLEEP"}, args : { <<"1">>, <<"z">> }, conn : {"c1"}]
    \cup [name : {"SHUTDOWN", "RAWMSG", "BOGUS"}, args : { <<>> }, conn : {"c1"}]

\* a response: its status and, for a write or HEAD, the id it carries
Resp(status, id) == [status |-> status, id |-> id]

\* the response as the caller of command c gets it
RespFor(c, resp) == [cmd |-> c.id, status |-> resp.status, id |-> resp.id]

\* an element of a reader channel
Item(kind, toks) == [kind |-> kind, toks |-> toks]
EOFItem == Item("eof", <<>>)

\* ------------------------------------------------------------ the log

\* Logger.Head: the id of the last record written, 0 for an empty log
LogHead(l) == IF l = <<>> THEN 0 ELSE Last(l).id

\* Logger.Write after SetID(id): the record is appended to the file
LogWrite(l, id, tok) == Append(l, [id |-> id, tok |-> tok])

\* Logger.Range fails when no record has the id start
RangeFails(l, start, end) == \A p \in DOMAIN l : l[p].id # start

\* the tokens of the records at positions p..hi that Range(start, end) covers:
\* those whose id lies in start..end, both ends included
RECURSIVE RangeToks(_, _, _, _, _)
RangeToks(l, p, hi, start, end) ==
    IF p > hi THEN <<>>
    ELSE (IF start <= l[p].id /\ l[p].id <= end THEN <<l[p].tok>> ELSE <<>>)
         \o RangeToks(l, p + 1, hi, start, end)

\* Logger.Range: one log file per partition that holds a record of the range,
\* in partition order, each limited to the records of the range
RECURSIVE RangeChunks(_, _, _, _)
RangeChunks(l, k, start, end) ==
    LET lo == (k - 1) * PartRecs + 1
        hi == IF k * PartRecs < Len(l) THEN k * PartRecs ELSE Len(l)
        toks == RangeToks(l, lo, hi, start, end)
    IN IF lo > Len(l) THEN <<>>
       ELSE (IF toks = <<>> THEN <<>> ELSE <<toks>>) \o RangeChunks(l, k + 1, start, end)

\* ------------------------------------------------------------ channels

SendOp(ch, item) == [op |-> "send", ch |-> ch, item |-> item]
FinishOp(ch) == [op |-> "finish", ch |-> ch, item |-> EOFItem]

\* The handler runs its channel operations in order until a send finds its
\* reader channel full: there the event loop blocks. A send on a channel that
\* handleSubscriber has closed panics.
RECURSIVE RunOps(_, _, _)
RunOps(ops, chans, fin) ==
    IF ops = <<>> THEN [ops |-> ops, chans |-> chans, fin |-> fin, panic |-> FALSE]
    ELSE LET o == Head(ops) IN
         IF o.op = "finish"
         THEN RunOps(Tail(ops), chans, [fin EXCEPT ![o.ch] = @ + 1])
         ELSE IF listener[o.ch] = "cancelled"
         THEN [ops |-> ops, chans |-> chans, fin |-> fin, panic |-> TRUE]
         ELSE IF Len(chans[o.ch]) < ReaderCap
         THEN RunOps(Tail(ops), [chans EXCEPT ![o.ch] = Append(@, o.item)], fin)
         ELSE [ops |-> ops, chans |-> chans, fin |-> fin, panic |-> FALSE]

\* the handler of command c does ops; then the loop goes back to its select,
\* unless a send blocked it
Continue(c, ops) ==
    LET r == RunOps(ops, readerC, finished) IN
    /\ readerC' = r.chans
    /\ finished' = r.fin
    /\ pending' = r.ops
    /\ pc' = IF r.panic THEN "panicked" ELSE IF r.ops = <<>> THEN "idle" ELSE "blocked"
    /\ cur' = IF r.ops = <<>> THEN NoCmd ELSE c
    /\ ready' = FALSE

\* cmd.Respond: the response is sent on the command's own response channel
Respond(c, resp) == RespC' = [RespC EXCEPT ![c.id] = Append(@, RespFor(c, resp))]

\* ------------------------------------------------------------ EventQ

NoRead == [start |-> 0, limit |-> 0, conn |-> "c1", reg |-> 0, head |-> 0,
           state |-> "none"]

\* NewEventQ and Start on an empty log: currID = head + 1
InitQ ==
    /\ nextCmd = 1
    /\ in = <<>>
    /\ pc = "idle"
    /\ cur = NoCmd
    /\ ready = FALSE
    /\ pending = <<>>
    /\ log = <<>>
    /\ currID = LogHead(<<>>) + 1
    /\ logOpen = TRUE
    /\ subscriptions = <<>>
    /\ readerC = [c \in CmdIds |-> <<>>]
    /\ recv = [c \in CmdIds |-> <<>>]
    /\ RespC = [c \in CmdIds |-> <<>>]
    /\ done = [c \in CmdIds |-> FALSE]
    /\ finished = [c \in CmdIds |-> 0]
    /\ committed = <<>>
    /\ reads = [c \in CmdIds |-> NoRead]
    /\ listener = [c \in CmdIds |-> "draining"]
    /\ expired = {}

\* the connection has been closed: its handleSubscriber goroutines saw the
\* context cancelled, and no command comes from it any more
ConnClosed(conn) ==
    \E r \in CmdIds :
        reads[r].state # "none" /\ reads[r].conn = conn /\ listener[r] = "cancelled"

\* PushCommand, first select: the caller sends its command on q.in; it then
\* waits for the response on the command's own RespC
PushCommand ==
    /\ nextCmd <= MaxCmds
    /\ Len(in) < InCap
    /\ \E t \in Templates :
         /\ ~ConnClosed(t.conn)
         /\ in' = Append(in, [id |-> nextCmd, name |-> t.name, args |-> t.args, conn |-> t.conn])
    /\ nextCmd' = nextCmd + 1
    /\ UNCHANGED <<pc, cur, ready, pending, currID, log, logOpen, subscriptions,
                   readerC, recv, RespC, done, finished, committed, reads, listener, expired>>

\* loop: the select takes the next command from q.in
Dequeue(name) ==
    /\ pc = "idle"
    /\ in # <<>>
    /\ Head(in).name = name
    /\ in' = Tail(in)

\* the for loop of handleMsg from message i on; id is the last id given out, l
\* the log, toks the messages written by this command, failAt the message at
\* which the store returns an error (0: none)
RECURSIVE MsgLoop(_, _, _, _, _, _)
MsgLoop(c, i, id, l, toks, failAt) ==
    IF i > Len(c.args)
    THEN [status |-> "OK", id |-> id, log |-> l, toks |-> toks]
    ELSE IF c.args[i] = ""
    THEN [status |-> "CLIENT_ERR", id |-> id, log |-> l, toks |-> toks]
    ELSE IF failAt = i
    THEN [status |-> "ERR", id |-> id + 1, log |-> l, toks |-> toks]
    ELSE MsgLoop(c, i + 1, id + 1, LogWrite(l, id + 1, <<c.id, i>>),
                 Append(toks, [tok |-> <<c.id, i>>, id |-> id + 1]), failAt)

\* handleMsg up to its response
MsgResult(c, failAt) ==
    IF Len(c.args) = 0
    THEN [status |-> "CLIENT_ERR", id |-> currID - 1, log |-> log, toks |-> <<>>]
    ELSE MsgLoop(c, 1, currID - 1, log, <<>>, failAt)

\* a broadcast that sends the messages of a command last first
SubSendsReversed(ch, toks) ==
    [ i \in 1..Len(toks) |-> SendOp(ch, Item("msg", <<toks[Len(toks) + 1 - i].tok>>)) ]

\* Subscription.send for every message, in argument order
SubSends(ch, toks) == [ i \in 1..Len(toks) |-> SendOp(ch, Item("msg", <<toks[i].tok>>)) ]

\* publishMessages: every subscription in the map's iteration order
RECURSIVE PublishOps(_, _, _)
PublishOps(subs, order, toks) ==
    IF order = <<>> THEN <<>>
    ELSE SubSends(subs[Head(order)].ch, toks) \o PublishOps(subs, Tail(order), toks)

HandleMsg ==
    /\ Dequeue("MSG")
    /\ LET c == Head(in) IN
       \E failAt \in 0..Len(c.args) :
         LET r == MsgResult(c, failAt) IN
         /\ log' = r.log
         /\ IF r.status = "OK"
            THEN /\ currID' = r.id + 1
                 /\ committed' = committed \o r.toks
                 /\ Respond(c, Resp("OK", r.id))
                 /\ \E order \in Orders(DOMAIN subscriptions) :
                      Continue(c, PublishOps(subscriptions, order, r.toks))
            ELSE /\ Respond(c, Resp(r.status, 0))
                 /\ Continue(c, <<>>)
                 /\ UNCHANGED <<currID, committed>>
    /\ UNCHANGED <<nextCmd, logOpen, subscriptions, recv, done, reads, listener, expired>>

\* a handler that only answers
Answer(c, resp) ==
    /\ Respond(c, resp)
    /\ Continue(c, <<>>)
    /\ UNCHANGED <<nextCmd, currID, log, logOpen, subscriptions, recv, done,
                   committed, reads, listener, expired>>

\* parseRead / parseReplicate: the start id and the limit, or an error
ReadParse(c) ==
    IF c.name = "READ"
    THEN IF Len(c.args) # 2 \/ ParseNumber(c.args[1]) < 0 \/ ParseNumber(c.args[2]) < 0
         THEN [err |-> TRUE, start |-> 0, limit |-> 0]
         ELSE [err |-> FALSE, start |-> ParseNumber(c.args[1]), limit |-> ParseNumber(c.args[2])]
    ELSE IF Len(c.args) # 1 \/ ParseNumber(c.args[1]) < 0
         THEN [err |-> TRUE, start |-> 0, limit |-> 0]
         ELSE [err |-> FALSE, start |-> ParseNumber(c.args[1]), limit |-> 0]

\* doRead up to WaitForReady: the response carries a new reader channel
DoReadRespond(c) ==
    /\ Respond(c, Resp("OK", 0))
    /\ pc' = "waitReady"
    /\ cur' = c
    /\ ready' = FALSE
    /\ UNCHANGED <<nextCmd, pending, currID, log, logOpen, subscriptions, readerC,
                   recv, done, finished, committed, reads, listener, expired>>

HandleRead ==
    /\ Dequeue("READ")
    /\ LET c == Head(in) IN
       IF ReadParse(c).err
       THEN Answer(c, Resp("CLIENT_ERR", 0))
       ELSE DoReadRespond(c)

HandleReplicate ==
    /\ Dequeue("REPLICATE")
    /\ LET c == Head(in) IN
       IF ReadParse(c).err
       THEN Answer(c, Resp("ERR", 0))
       ELSE DoReadRespond(c)

\* Socket.handleRead: the listener has the response and signals ready
SignalReady ==
    /\ pc = "waitReady"
    /\ ~ready
    /\ listener[cur.id] # "gone"
    /\ ready' = TRUE
    /\ UNCHANGED <<nextCmd, in, pc, cur, pending, currID, log, logOpen, subscriptions,
                   readerC, recv, RespC, done, finished, committed, reads, listener, expired>>

\* a read forever that stops one id before the head
ReadEndShort(start, limit, head) == IF limit = 0 THEN head - 1 ELSE start + limit

\* doRead: the end of the range
ReadEnd(start, limit, head) == IF limit = 0 THEN head ELSE start + limit

\* sendChunk: the envelope, then the file
ChunkOps(ch, toks) == << SendOp(ch, Item("env", <<>>)), SendOp(ch, Item("chunk", toks)) >>

\* resp.SendEOF and cmd.Finish
EOFOps(ch) == << SendOp(ch, EOFItem), FinishOp(ch) >>

\* the for loop of doRead over the iterator; errAt is the log file at which
\* iterator.Error() is set (0: none)
RECURSIVE IterOps(_, _, _, _)
IterOps(ch, chunks, k, errAt) ==
    IF k > Len(chunks) THEN <<>>
    ELSE (IF errAt = k THEN EOFOps(ch) ELSE <<>>)
         \o ChunkOps(ch, chunks[k]) \o IterOps(ch, chunks, k + 1, errAt)

\* doRead after WaitForReady
StreamOps(c, start, limit, end, errAt) ==
    IF RangeFails(log, start, end) THEN EOFOps(c.id)
    ELSE IterOps(c.id, RangeChunks(log, 1, start, end), 1, errAt)
         \o (IF limit # 0 THEN EOFOps(c.id) ELSE <<>>)

\* a registration that keeps the connection's earlier subscription
AddSubscriptionKeepOld(subs, c) ==
    ((IF c.conn \in DOMAIN subs THEN "again" ELSE c.conn) :> [ch |-> c.id]) @@ subs

\* doRead adds the subscription of the command's connection
AddSubscription(subs, c) == (c.conn :> [ch |-> c.id]) @@ subs

\* a handler that goes on without the listener's signal
WaitForReadySkipped == TRUE

\* cmd.WaitForReady: the handler goes on once the listener has signalled
WaitForReady == ready

DoReadStream ==
    /\ pc = "waitReady"
    /\ WaitForReady
    /\ LET c == cur
           p == ReadParse(c)
           end == ReadEnd(p.start, p.limit, LogHead(log))
       IN \E headErr \in BOOLEAN :
          IF p.limit = 0 /\ headErr
          THEN /\ pc' = "panicked"
               /\ UNCHANGED <<cur, ready, pending, subscriptions, readerC, finished, reads>>
          ELSE \E errAt \in 0..Len(RangeChunks(log, 1, p.start, end)) :
               /\ subscriptions' = AddSubscription(subscriptions, c)
               /\ reads' = [reads EXCEPT ![c.id] =
                     [start |-> p.start, limit |-> p.limit, conn |-> c.conn,
                      reg |-> Len(committed), head |-> LogHead(log),
                      state |-> IF RangeFails(log, p.start, end) THEN "notfound"
                                ELSE IF errAt # 0 THEN "itererr" ELSE "ok"]]
               /\ Continue(c, StreamOps(c, p.start, p.limit, end, errAt))
    /\ UNCHANGED <<nextCmd, in, currID, log, logOpen, recv, RespC, done, committed,
                   listener, expired>>

HandleRawMsg ==
    /\ Dequeue("RAWMSG")
    /\ Answer(Head(in), Resp("OK", 0))

HandleHead ==
    /\ Dequeue("HEAD")
    /\ LET c == Head(in) IN
       IF Len(c.args) # 0 THEN Answer(c, Resp("CLIENT_ERR", 0))
       ELSE \E headErr \in BOOLEAN :
              IF headErr THEN Answer(c, Resp("ERR", 0))
              ELSE Answer(c, Resp("OK", LogHead(log)))

HandleStats ==
    /\ Dequeue("STATS")
    /\ LET c == Head(in) IN
       IF Len(c.args) # 0 THEN Answer(c, Resp("CLIENT_ERR", 0))
       ELSE Answer(c, Resp("OK", 0))

HandlePing ==
    /\ Dequeue("PING")
    /\ LET c == Head(in) IN
       IF Len(c.args) # 0 THEN Answer(c, Resp("CLIENT_ERR", 0))
       ELSE Answer(c, Resp("OK", 0))

\* a removeSubscription that deletes nothing
RemoveNothing(subs, conn) == subs

\* removeSubscription: finish the subscription of the connection, delete it
RemoveSubscription(subs, conn) == [ k \in DOMAIN subs \ {conn} |-> subs[k] ]

HandleClose ==
    /\ Dequeue("CLOSE")
    /\ LET c == Head(in) IN
       IF Len(c.args) # 0 THEN Answer(c, Resp("CLIENT_ERR", 0))
       ELSE /\ subscriptions' = RemoveSubscription(subscriptions, c.conn)
            \* Subscription.finish: the done signal is taken only if the
            \* listener is waiting for it
            /\ IF c.conn \in DOMAIN subscriptions
               THEN \E taken \in BOOLEAN :
                      done' = [done EXCEPT ![subscriptions[c.conn].ch] = @ \/ taken]
               ELSE UNCHANGED done
            /\ Respond(c, Resp("OK", 0))
            /\ Continue(c, <<>>)
            /\ UNCHANGED <<nextCmd, currID, log, logOpen, recv, committed, reads, listener, expired>>

HandleSleep ==
    /\ Dequeue("SLEEP")
    /\ LET c == Head(in) IN
       IF Len(c.args) # 1 \/ ParseNumber(c.args[1]) < 0
       THEN Answer(c, Resp("CLIENT_ERR", 0))
       ELSE Answer(c, Resp("OK", 0))

\* loop, case CmdShutdown: HandleShutdown shuts the log down; the loop goes on
HandleShutdown ==
    /\ Dequeue("SHUTDOWN")
    /\ LET c == Head(in) IN
       \E err \in BOOLEAN :
         /\ Respond(c, Resp(IF err THEN "ERR" ELSE "OK", 0))
         /\ logOpen' = (logOpen /\ err)
         /\ Continue(c, <<>>)
    /\ UNCHANGED <<nextCmd, currID, log, subscriptions, recv, done, committed, reads,
                   listener, expired>>

\* a default case that forgets to respond
HandleUnknownSilent ==
    /\ pc = "idle"
    /\ in # <<>>
    /\ Head(in).name = "BOGUS"
    /\ in' = Tail(in)
    /\ UNCHANGED <<nextCmd, pc, cur, ready, pending, currID, log, logOpen, subscriptions,
                   readerC, recv, RespC, done, finished, committed, reads, listener, expired>>

\* loop, default case
HandleUnknown ==
    /\ pc = "idle"
    /\ in # <<>>
    /\ Head(in).name = "BOGUS"
    /\ in' = Tail(in)
    /\ Answer(Head(in), Resp("ERR", 0))

\* a handler blocked on a full reader channel goes on when there is room
Resume ==
    /\ pc = "blocked"
    /\ \/ Len(readerC[Head(pending).ch]) < ReaderCap
       \/ listener[Head(pending).ch] = "cancelled"
    /\ Continue(cur, pending)
    /\ UNCHANGED <<nextCmd, in, currID, log, logOpen, subscriptions, recv, RespC,
                   done, committed, reads, listener, expired>>

\* Stop: the loop takes the close signal in its select, and Stop returns
Stop ==
    /\ pc = "idle"
    /\ pc' = "stopped"
    /\ stopReturned' = TRUE
    /\ UNCHANGED <<nextCmd, in, cur, ready, pending, currID, log, logOpen, subscriptions,
                   readerC, recv, RespC, done, finished, committed, reads, listener, expired>>

\* Socket.handleSubscriber: the listener takes the next reader from a channel
Drain ==
    \E ch \in CmdIds :
      /\ readerC[ch] # <<>>
      /\ listener[ch] = "draining"
      /\ recv' = [recv EXCEPT ![ch] = Append(@, Head(readerC[ch]))]
      /\ readerC' = [readerC EXCEPT ![ch] = Tail(@)]
      /\ UNCHANGED <<nextCmd, in, pc, cur, ready, pending, currID, log, logOpen,
                     subscriptions, RespC, done, finished, committed, reads, listener, expired>>

NextQ ==
    \/ PushCommand /\ UNCHANGED <<hvars, bvars, wvars, cvars, pvars, svars, kvars, tvars, fvars>>
    \/ HandleMsg /\ UNCHANGED <<hvars, bvars, wvars, cvars, pvars, svars, kvars, tvars, fvars>>
    \/ HandleRead /\ UNCHANGED <<hvars, bvars, wvars, cvars, pvars, svars, kvars, tvars, fvars>>
    \/ HandleReplicate /\ UNCHANGED <<hvars, bvars, wvars, cvars, pvars, svars, kvars, tvars, fvars>>
    \/ SignalReady /\ UNCHANGED <<hvars, bvars, wvars, cvars, pvars, svars, kvars, tvars, fvars>>
    \/ DoReadStream /\ UNCHANGED <<hvars, bvars, wvars, cvars, pvars, svars, kvars, tvars, fvars>>
    \/ HandleRawMsg /\ UNCHANGED <<hvars, bvars, wvars, cvars, pvars, svars, kvars, tvars, fvars>>
    \/ HandleHead /\ UNCHANGED <<hvars, bvars, wvars, cvars, pvars, svars, kvars, tvars, fvars>>
    \/ HandleStats /\ UNCHANGED <<hvars, bvars, wvars, cvars, pvars, svars, kvars, tvars, fvars>>
    \/ HandlePing /\ UNCHANGED <<hvars, bvars, wvars, cvars, pvars, svars, kvars, tvars, fvars>>
    \/ HandleClose /\ UNCHANGED <<hvars, bvars, wvars, cvars, pvars, svars, kvars, tvars, fvars>>
    \/ HandleSleep /\ UNCHANGED <<hvars, bvars, wvars, cvars, pvars, svars, kvars, tvars, fvars>>
    \/ HandleShutdown /\ UNCHANGED <<hvars, bvars, wvars, cvars, pvars, svars, kvars, tvars, fvars>>
    \/ HandleUnknown /\ UNCHANGED <<hvars, bvars, wvars, cvars, pvars, svars, kvars, tvars, fvars>>
    \/ Resume /\ UNCHANGED <<hvars, bvars, wvars, cvars, pvars, svars, kvars, tvars, fvars>>
    \/ Stop /\ UNCHANGED <<hvars, bvars, wvars, cvars, pvars, kvars, tvars, fvars>>
    \/ Drain /\ UNCHANGED <<hvars, bvars, wvars, cvars, pvars, svars, kvars, tvars, fvars>>

\* Socket.handleSubscriber of read r returns: the connection was closed (the
\* context is cancelled, and every handleSubscriber of the connection closes
\* its reader channel), or a write to the socket failed (sendReader returns an
\* error, the channel stays open and is drained no more)
ListenerEnds ==
    \E r \in CmdIds :
      /\ reads[r].state # "none"
      /\ listener[r] = "draining"
      /\ \/ listener' = [ x \in CmdIds |->
                 IF reads[x].state # "none" /\ reads[x].conn = reads[r].conn
                    /\ listener[x] = "draining"
                 THEN "cancelled" ELSE listener[x] ]
         \/ listener' = [listener EXCEPT ![r] = "failed"]
      /\ UNCHANGED <<nextCmd, in, pc, cur, ready, pending, currID, log, logOpen,
                     subscriptions, readerC, recv, RespC, done, finished, committed, reads,
                     expired>>

\* Socket.executeCommand: the timeout of cmdCtx passes while the caller of
\* command c is in PushCommand, its command queued or being handled
DeadlineExpires ==
    \E c \in CmdIds :
      /\ c < nextCmd
      /\ RespC[c] = <<>>
      /\ c \notin expired
      /\ expired' = expired \cup {c}
      /\ UNCHANGED <<nextCmd, in, pc, cur, ready, pending, currID, log, logOpen,
                     subscriptions, readerC, recv, RespC, done, finished, committed, reads,
                     listener>>

\* Socket.executeCommand returns after the queue has answered a READ without
\* having written the response (the server is shutting down, or the write
\* deadline, readPending or conn.write failed): handleConnection ends before
\* handleRead, and its deferred cancel() ends the connection's subscribers
ListenerLeaves ==
    /\ pc = "waitReady"
    /\ ~ready
    /\ listener[cur.id] = "draining"
    /\ listener' = [ x \in CmdIds |->
           IF x = cur.id THEN "gone"
           ELSE IF reads[x].state # "none" /\ reads[x].conn = cur.conn
                   /\ listener[x] = "draining"
           THEN "cancelled" ELSE listener[x] ]
    /\ UNCHANGED <<nextCmd, in, pc, cur, ready, pending, currID, log, logOpen,
                   subscriptions, readerC, recv, RespC, done, finished, committed, reads,
                   expired>>

\* the event loop and its listeners, with connections that can go away
NextQL ==
    \/ NextQ
    \/ ListenerEnds /\ UNCHANGED <<hvars, bvars, wvars, cvars, pvars, svars, kvars, tvars, fvars>>
    \/ ListenerLeaves /\ UNCHANGED <<hvars, bvars, wvars, cvars, pvars, svars, kvars, tvars, fvars>>
    \/ DeadlineExpires /\ UNCHANGED <<hvars, bvars, wvars, cvars, pvars, svars, kvars, tvars, fvars>>

\* the steps of the loop goroutine
LoopStep ==
    /\ \/ HandleMsg \/ HandleRead \/ HandleReplicate \/ DoReadStream \/ HandleRawMsg
       \/ HandleHead \/ HandleStats \/ HandlePing \/ HandleClose \/ HandleSleep
       \/ HandleShutdown \/ HandleUnknown \/ Resume
    /\ UNCHANGED <<hvars, bvars, wvars, cvars, pvars, svars, kvars, tvars, fvars>>

\* the steps of the listener goroutines
ListenerStep == (SignalReady \/ Drain) /\ UNCHANGED <<hvars, bvars, wvars, cvars, pvars, svars, kvars, tvars, fvars>>

\* ------------------------------------------------------------ Handlers

Threads == {"t1", "t2"}
Topics == {"a", "b"}
AsyncQ == 0

\* a table of blocking requests without TAIL
BlockingReqsNoTail == {"BATCH", "READ"}

\* blockingReqs
BlockingReqs == {"BATCH", "READ", "TAIL"}

\* the requests a connection can send: the command and req.Topic()
Requests ==
    [name : {"BATCH", "READ", "TAIL"}, topic : Topics \cup {""}]
    \cup [name : {"HEAD"}, topic : {"a"}]
    \cup [name : {"PING", "CLOSE"}, topic : {""}]

NoReq == [id |-> 0, name |-> "NONE", topic |-> ""]

\* NewHandlers and GoStart: the asyncQ, and a started queue for every topic
\* the registry finds at startup (here the topic "a")
InitH ==
    /\ h = ("a" :> 1)
    /\ nq = 1
    /\ started = {[q |-> AsyncQ, topic |-> ""], [q |-> 1, topic |-> "a"]}
    /\ topics = {"a"}
    /\ mu = "free"
    /\ tpc = [t \in Threads |-> "idle"]
    /\ treq = [t \in Threads |-> NoReq]
    /\ inq = [q \in 0..(MaxReqs + 1) |-> <<>>]
    /\ ncalls = 0
    /\ pushed = {}
    /\ returned = {}

\* another thread is in PushRequest with a BATCH for the same topic and waits
\* for the mutex
Racing(t, r) ==
    \E u \in Threads \ {t} :
        tpc[u] = "lock" /\ treq[u].name = "BATCH" /\ treq[u].topic = r.topic

\* eventQ.PushRequest: the request is sent on the queue's inbound channel and
\* the caller waits for its response
PushTo(t, r, q, had) ==
    /\ inq' = [inq EXCEPT ![q] = Append(@, [t |-> t, id |-> r.id])]
    /\ pushed' = pushed \cup {[id |-> r.id, name |-> r.name, topic |-> r.topic,
                               q |-> q, had |-> had, conc |-> Racing(t, r)]}
    /\ tpc' = [tpc EXCEPT ![t] = "wait"]

\* PushRequest: a request that is not blocking goes to the asyncQ; so does, in
\* pushBlockingRequest, a blocking one without a topic
PushRequest(t) ==
    /\ tpc[t] = "idle"
    /\ ncalls < MaxReqs
    /\ \E rq \in Requests :
         LET r == [id |-> ncalls + 1, name |-> rq.name, topic |-> rq.topic] IN
         /\ treq' = [treq EXCEPT ![t] = r]
         /\ IF r.name \in BlockingReqs /\ r.topic # ""
            THEN /\ tpc' = [tpc EXCEPT ![t] = "lock"]
                 /\ UNCHANGED <<inq, pushed>>
            ELSE PushTo(t, r, AsyncQ, r.topic \in DOMAIN h)
    /\ ncalls' = ncalls + 1
    /\ UNCHANGED <<h, nq, started, topics, mu, returned>>

\* a lock that excludes nobody
MuNeverHeld == TRUE

\* h.mu.Lock()
MuFree == mu = "free"

Lock(t) ==
    /\ tpc[t] = "lock"
    /\ MuFree
    /\ mu' = t
    /\ tpc' = [tpc EXCEPT ![t] = "lookup"]
    /\ UNCHANGED <<h, nq, started, topics, treq, inq, ncalls, pushed, returned>>

\* a queue is created for any blocking request on an unknown topic
CreatesAnyQueue(name) == TRUE

\* pushBlockingRequest creates a queue for a request of this command
CreatesQueue(name) == name = "BATCH"

\* pushBlockingRequest: the lookup in h.h
Lookup(t) ==
    /\ tpc[t] = "lookup"
    /\ LET r == treq[t] IN
       IF r.topic \in DOMAIN h
       THEN PushTo(t, r, h[r.topic], TRUE)
       ELSE IF CreatesQueue(r.name)
       THEN /\ tpc' = [tpc EXCEPT ![t] = "create"]
            /\ UNCHANGED <<inq, pushed>>
       ELSE PushTo(t, r, AsyncQ, FALSE)
    /\ UNCHANGED <<h, nq, started, topics, mu, treq, ncalls, returned>>

\* defer h.mu.Unlock(), and the caller has its result
Return(t, err) ==
    /\ mu' = IF mu = t THEN "free" ELSE mu
    /\ returned' = returned \cup {[id |-> treq[t].id, name |-> treq[t].name,
                                   topic |-> treq[t].topic, err |-> err]}

\* pushBlockingRequest: newEventQ, topics.add, setTopic, GoStart, the insert
\* into h.h and the push to the new queue
Create(t) ==
    /\ tpc[t] = "create"
    /\ LET r == treq[t]
           q == nq + 1
       IN /\ nq' = q
          /\ \E addErr, startErr \in BOOLEAN :
               IF addErr
               THEN /\ tpc' = [tpc EXCEPT ![t] = "idle"]
                    /\ Return(t, TRUE)
                    /\ UNCHANGED <<h, started, topics, inq, pushed>>
               ELSE /\ topics' = topics \cup {r.topic}
                    /\ IF startErr
                       THEN /\ tpc' = [tpc EXCEPT ![t] = "idle"]
                            /\ Return(t, TRUE)
                            /\ UNCHANGED <<h, started, inq, pushed>>
                       ELSE /\ started' = started \cup {[q |-> q, topic |-> r.topic]}
                            /\ h' = (r.topic :> q) @@ h
                            /\ PushTo(t, r, q, FALSE)
                            /\ UNCHANGED <<mu, returned>>
    /\ UNCHANGED <<treq, ncalls>>

\* the loop of queue q answers its next request; the caller returns
Serve(q) ==
    /\ \E st \in started : st.q = q
    /\ inq[q] # <<>>
    /\ LET t == Head(inq[q]).t IN
       /\ tpc' = [tpc EXCEPT ![t] = "idle"]
       /\ Return(t, FALSE)
    /\ inq' = [inq EXCEPT ![q] = Tail(@)]
    /\ UNCHANGED <<h, nq, started, topics, treq, ncalls, pushed>>

NextH ==
    \/ \E t \in Threads : PushRequest(t) /\ UNCHANGED <<qvars, bvars, wvars, cvars, pvars, svars, kvars, tvars, fvars>>
    \/ \E t \in Threads : Lock(t) /\ UNCHANGED <<qvars, bvars, wvars, cvars, pvars, svars, kvars, tvars, fvars>>
    \/ \E t \in Threads : Lookup(t) /\ UNCHANGED <<qvars, bvars, wvars, cvars, pvars, svars, kvars, tvars, fvars>>
    \/ \E t \in Threads : Create(t) /\ UNCHANGED <<qvars, bvars, wvars, cvars, pvars, svars, kvars, tvars, fvars>>
    \/ \E q \in 0..(MaxReqs + 1) : Serve(q) /\ UNCHANGED <<qvars, bvars, wvars, cvars, pvars, svars, kvars, tvars, fvars>>

\* ------------------------------------------------------------ BATCH offsets

\* calcOffset of the queue's test: the offset expected of the push with
\* counter i, after one earlier push, for a fixture of l bytes
CalcOffset(l, i, interval) == l * ((i \div interval) + 1)

InitB ==
    /\ parts = << [start |-> 0, size |-> 0] >>
    /\ logw = "mock"
    /\ written = 0
    /\ offsets = <<>>
    /\ lens = <<>>
    /\ nbatch = 0

\* head = last_partition.start_offset + size(last_partition)
HeadOffset(ps) == Last(ps).start + Last(ps).size

\* a rotation that waits until the current partition is full
RotateWhenFull(ps, n) ==
    IF Last(ps).size >= PartitionSize
    THEN Append(ps, [start |-> HeadOffset(ps), size |-> 0])
    ELSE ps

\* append rotates first if the batch does not fit into the current partition:
\* the new partition is named by the head and becomes the current one
Rotate(ps, n) ==
    IF Last(ps).size + n > PartitionSize
    THEN Append(ps, [start |-> HeadOffset(ps), size |-> 0])
    ELSE ps

\* a retention that keeps the oldest partition and unlinks the one after it
RECURSIVE RetainOldest(_)
RetainOldest(ps) ==
    IF Len(ps) > MaxPartitions THEN RetainOldest(<<Head(ps)>> \o Tail(Tail(ps))) ELSE ps

\* retain: while there are more than MaxPartitions partitions, the one with
\* the smallest starting offset is unlinked
RECURSIVE Retain(_)
Retain(ps) == IF Len(ps) > MaxPartitions THEN Retain(Tail(ps)) ELSE ps

\* the batch is written to the current partition
WriteBatch(ps, n) == [ps EXCEPT ![Len(ps)].size = @ + n]

\* a store that answers with the position in the current partition
AppendOffsetInPartition(ps) == Last(ps).size

\* the offset a BATCH is answered with: the topic's size before the append
AppendOffset(ps) == HeadOffset(ps)

\* a BATCH of n wire bytes is handled; a store error answers ERR and leaves
\* the head unchanged
Batch ==
    /\ nbatch < MaxBatches
    /\ nbatch' = nbatch + 1
    /\ \E n \in 1..MaxLen, err \in BOOLEAN :
         IF err
         THEN UNCHANGED <<parts, written, offsets, lens>>
         ELSE LET ps == Retain(Rotate(parts, n)) IN
              /\ offsets' = Append(offsets, AppendOffset(ps))
              /\ lens' = Append(lens, n)
              /\ parts' = WriteBatch(ps, n)
              /\ written' = IF logw = "mock" THEN written + n ELSE written
    /\ UNCHANGED logw

\* the test installs another log writer in the running queue
SetWriter ==
    /\ \E w \in {"mock", "discard"} : w # logw /\ logw' = w
    /\ UNCHANGED <<parts, written, offsets, lens, nbatch>>

NextB ==
    \/ Batch /\ UNCHANGED <<qvars, hvars, wvars, cvars, pvars, svars, kvars, tvars, fvars>>
    \/ SetWriter /\ UNCHANGED <<qvars, hvars, wvars, cvars, pvars, svars, kvars, tvars, fvars>>

\* ------------------------------------------------------------ the chunk stream

WireEnv(n) == [kind |-> "env", n |-> n]
WireEOF == [kind |-> "eof", n |-> 0]
WireMsg == [kind |-> "msg", n |-> 0]

InitW ==
    /\ wire = <<>>
    /\ emitted = 0
    /\ sentChunks = <<>>
    /\ chunkEnd = 0
    /\ ChunkPos = 0
    /\ serr = "nil"
    /\ smsg = FALSE
    /\ scanned = 0
    /\ spc = "scanning"

Min(a, b) == IF a < b THEN a ELSE b

\* sendChunk: buflen, the length the envelope announces, from lf.SizeLimit()
BufLen(size, limit) == IF limit > 0 THEN limit ELSE size

\* io.LimitReader(f, buflen) on a file of size lines whose seek position is
\* pos: the lines the reader delivers
Delivered(size, limit, pos) == Min(BufLen(size, limit), size - pos)

\* sendChunk: the envelope and the limited file are pushed one after the
\* other, and handleSubscriber writes them to the connection in that order
SendChunk ==
    /\ \E size \in 1..MaxFile :
       \E pos \in 0..(size - 1) :
       \E limit \in 0..(size - pos) :
         LET n == BufLen(size, limit)
             d == Delivered(size, limit, pos)
         IN /\ emitted + 1 + d <= MaxWire
            /\ wire' = wire \o << WireEnv(n) >> \o [ i \in 1..d |-> WireMsg ]
            /\ emitted' = emitted + 1 + d
            /\ sentChunks' = Append(sentChunks, [n |-> n, payload |-> d])
    /\ UNCHANGED <<chunkEnd, ChunkPos, serr, smsg, scanned, spc>>

\* resp.SendEOF: the line +EOF
SendEOF ==
    /\ emitted < MaxWire
    /\ wire' = Append(wire, WireEOF)
    /\ emitted' = emitted + 1
    /\ UNCHANGED <<sentChunks, chunkEnd, ChunkPos, serr, smsg, scanned, spc>>

\* Subscription.send: a broadcast message is pushed as it is, without envelope
SubscriptionSend ==
    /\ emitted < MaxWire
    /\ wire' = Append(wire, WireMsg)
    /\ emitted' = emitted + 1
    /\ UNCHANGED <<sentChunks, chunkEnd, ChunkPos, serr, smsg, scanned, spc>>

\* scanEnvelope on the lines w: its error, the chunk length it sets and the
\* lines it leaves
ScanEnvelope(w) ==
    IF Head(w).kind = "msg"
    THEN [err |-> "errInvalidFirstByte", set |-> FALSE, n |-> 0, rest |-> w]
    ELSE IF Head(w).kind = "eof"
    THEN [err |-> "EOF", set |-> FALSE, n |-> 0, rest |-> Tail(w)]
    ELSE [err |-> "nil", set |-> TRUE, n |-> Head(w).n, rest |-> Tail(w)]

\* ReadMessage on the next line: the length read, whether a message is
\* returned, and the error
ReadMessage(line) ==
    IF line.kind = "eof" THEN [n |-> 1, msg |-> FALSE, err |-> "EOF"]
    ELSE IF line.kind = "env" THEN [n |-> 1, msg |-> FALSE, err |-> "errInvalidProtocolLine"]
    ELSE [n |-> 1, msg |-> TRUE, err |-> "nil"]

\* Scan, called by a client that loops while it returns true; a read of the
\* connection waits until the line is there
Scan ==
    /\ spc = "scanning"
    /\ wire # <<>>
    /\ LET e == IF chunkEnd <= 0 THEN ScanEnvelope(wire)
                ELSE [err |-> "nil", set |-> FALSE, n |-> 0, rest |-> wire]
       IN IF e.err \notin {"nil", "errInvalidFirstByte"}
          THEN /\ serr' = e.err
               /\ spc' = "done"
               /\ wire' = e.rest
               /\ UNCHANGED <<chunkEnd, ChunkPos, smsg, scanned>>
          ELSE /\ e.rest # <<>>
               /\ LET r == ReadMessage(Head(e.rest))
                      end == IF e.set THEN e.n ELSE chunkEnd
                      pos == ChunkPos + r.n
                  IN /\ wire' = Tail(e.rest)
                     /\ IF end > 0 /\ pos >= end
                        THEN chunkEnd' = 0 /\ ChunkPos' = 0
                        ELSE chunkEnd' = end /\ ChunkPos' = pos
                     /\ serr' = r.err
                     /\ smsg' = r.msg
                     /\ scanned' = IF r.err = "nil" THEN scanned + 1 ELSE scanned
                     /\ spc' = IF r.err = "nil" THEN "scanning" ELSE "done"
    /\ UNCHANGED <<emitted, sentChunks>>

NextW ==
    \/ SendChunk /\ UNCHANGED <<qvars, hvars, bvars, cvars, pvars, svars, kvars, tvars, fvars>>
    \/ SendEOF /\ UNCHANGED <<qvars, hvars, bvars, cvars, pvars, svars, kvars, tvars, fvars>>
    \/ SubscriptionSend /\ UNCHANGED <<qvars, hvars, bvars, cvars, pvars, svars, kvars, tvars, fvars>>
    \/ Scan /\ UNCHANGED <<qvars, hvars, bvars, cvars, pvars, svars, kvars, tvars, fvars>>

\* ------------------------------------------------------------ the connection

InitC ==
    /\ cpc = "read"
    /\ heard = <<>>
    /\ wrote = <<>>
    /\ shutting = FALSE

\* what ReadCommand returns an error for: a request line it cannot parse, a
\* body whose checksum does not match, the end of the stream, a timeout
ReadErrors == {"malformed", "crc", "eof", "timeout"}

\* what can arrive on a connection: a command, a command with a wrong number
\* of arguments, a CLOSE, a SHUTDOWN, or something ReadCommand fails on
Inputs == {"cmd", "badarity", "close", "shutdown"} \cup ReadErrors

\* the statuses the event queue answers a command with
Statuses(k) == IF k = "badarity" THEN {"CLIENT_ERR", "ERR"} ELSE {"OK", "ERR"}

\* handleConnection, the top of the loop: the shutdown check, the deadline
\* and readCommand; every error returns, and the deferred function closes
\* the connection
ReadCommand ==
    /\ cpc = "read"
    /\ IF shutting
       THEN cpc' = "closed" /\ UNCHANGED heard
       ELSE \E deadlineErr \in BOOLEAN :
              IF deadlineErr
              THEN cpc' = "closed" /\ UNCHANGED heard
              ELSE /\ Len(heard) < MaxConnCmds
                   /\ \E k \in Inputs :
                        /\ heard' = Append(heard, k)
                        /\ cpc' = IF k \in ReadErrors THEN "closed" ELSE "exec"
    /\ UNCHANGED <<wrote, shutting>>

\* handleConnection, the rest of the loop: executeCommand pushes the command,
\* writes the response, and the loop ends after a CLOSE
ExecuteCommand ==
    /\ cpc = "exec"
    /\ LET k == Last(heard) IN
       IF shutting
       THEN cpc' = "closed" /\ UNCHANGED <<wrote, shutting>>
       ELSE \E st \in Statuses(k), werr \in BOOLEAN :
              IF k = "shutdown" /\ st = "OK"
              THEN cpc' = "closed" /\ shutting' = TRUE /\ UNCHANGED wrote
              ELSE IF werr
              THEN cpc' = "closed" /\ UNCHANGED <<wrote, shutting>>
              ELSE /\ wrote' = Append(wrote, st)
                   /\ cpc' = IF k = "close" THEN "closed" ELSE "read"
                   /\ UNCHANGED shutting
    /\ UNCHANGED heard

\* Socket.Stop: the server starts to shut down
BeginShutdown ==
    /\ ~shutting
    /\ shutting' = TRUE
    /\ UNCHANGED <<cpc, heard, wrote>>

NextC ==
    \/ ReadCommand /\ UNCHANGED <<qvars, hvars, bvars, wvars, pvars, svars, kvars, tvars, fvars>>
    \/ ExecuteCommand /\ UNCHANGED <<qvars, hvars, bvars, wvars, pvars, svars, kvars, tvars, fvars>>
    \/ BeginShutdown /\ UNCHANGED <<qvars, hvars, bvars, wvars, pvars, svars, kvars, tvars, fvars>>

\* ------------------------------------------------------------ package-level eventQ
\* the older queue of src/events.go: handleMsg starts one goroutine per
\* subscriber for every committed write command, and each goroutine sends the
\* command's messages on the subscriber's unbuffered msgC

MaxWrites == 3

PkgConns == {"a", "b"}

InitP ==
    /\ pkgCurrID = 1
    /\ pkgLog = <<>>
    /\ pkgSubs = {}
    /\ pkgWrites = 0
    /\ senders = {}
    /\ got = [c \in PkgConns |-> <<>>]

\* the ids of the log from the first message whose id is startID to the end
PkgScanFrom(startID) ==
    LET at == {i \in 1..Len(pkgLog) : pkgLog[i] = startID} IN
    IF at = {} THEN <<>>
    ELSE LET first == CHOOSE i \in at : \A j \in at : i <= j IN
         SubSeq(pkgLog, first, Len(pkgLog))

\* eventQ.handleMsg: n messages get the ids after the head and are written
\* one by one; a failing write ends the command with ERR and leaves currID;
\* after the OK response one goroutine per subscriber is started
PkgHandleMsg ==
    /\ pkgWrites < MaxWrites
    /\ pkgWrites' = pkgWrites + 1
    /\ \E n \in 1..2, failAt \in 0..2 :
         /\ failAt <= n
         /\ LET ids == [i \in 1..n |-> pkgCurrID - 1 + i] IN
            IF failAt > 0
            THEN /\ pkgLog' = pkgLog \o SubSeq(ids, 1, failAt - 1)
                 /\ UNCHANGED <<pkgCurrID, senders>>
            ELSE /\ pkgLog' = pkgLog \o ids
                 /\ pkgCurrID' = pkgCurrID + n
                 /\ senders' = senders \cup
                        {[sub |-> s, cmd |-> pkgWrites + 1, ids |-> ids, next |-> 1] :
                            s \in pkgSubs}
    /\ UNCHANGED <<pkgSubs, got>>

\* the goroutine of one command and one subscriber performs its next
\* sub.send; the connection's goroutine receives from msgC
PkgSubSend(g) ==
    /\ g \in senders
    /\ got' = [got EXCEPT ![g.sub] =
                  Append(@, [cmd |-> g.cmd, id |-> g.ids[g.next]])]
    /\ senders' = (senders \ {g}) \cup
                    (IF g.next = Len(g.ids) THEN {}
                     ELSE {[g EXCEPT !.next = g.next + 1]})
    /\ UNCHANGED <<pkgCurrID, pkgLog, pkgSubs, pkgWrites>>

\* eventQ.doRead with limit 0: the messages from startID on are sent as one
\* chunk and the connection is subscribed
PkgDoRead(c) ==
    /\ c \notin pkgSubs
    /\ \E startID \in 1..pkgCurrID :
         LET b == PkgScanFrom(startID) IN
         got' = [got EXCEPT ![c] =
                    @ \o [i \in 1..Len(b) |-> [cmd |-> 0, id |-> b[i]]]]
    /\ pkgSubs' = pkgSubs \cup {c}
    /\ UNCHANGED <<pkgCurrID, pkgLog, pkgWrites, senders>>

NextP ==
    \/ PkgHandleMsg /\ UNCHANGED <<qvars, hvars, bvars, wvars, cvars, svars, kvars, tvars, fvars>>
    \/ \E g \in senders :
         PkgSubSend(g) /\ UNCHANGED <<qvars, hvars, bvars, wvars, cvars, svars, kvars, tvars, fvars>>
    \/ \E c \in PkgConns :
         PkgDoRead(c) /\ UNCHANGED <<qvars, hvars, bvars, wvars, cvars, svars, kvars, tvars, fvars>>

\* ------------------------------------------------------------ EventQ.Stop

InitS == stopReturned = FALSE

\* Stop called while the loop is inside a handler: nothing receives from
\* q.close, time.After(500ms) fires, and Stop logs and returns nil
StopTimesOut ==
    /\ pc \in {"waitReady", "blocked"}
    /\ ~stopReturned
    /\ stopReturned' = TRUE

\* the event loop with callers of Stop at any time
NextQS ==
    \/ NextQ
    \/ StopTimesOut /\ UNCHANGED <<qvars, hvars, bvars, wvars, cvars, pvars, kvars, tvars, fvars>>

\* ------------------------------------------------------------ Socket.Stop

MaxSockConns == 3

InitK ==
    /\ sockPc = "serving"
    /\ shuttingDown = FALSE
    /\ qStopped = FALSE
    /\ conns = {}
    /\ connIn = <<>>
    /\ handlers = {}
    /\ toRemove = {}
    /\ acceptPc = "top"
    /\ rawConn = 0
    /\ naccepted = 0

\* accept, top of the loop: isShuttingDown ends it
AcceptTop ==
    /\ acceptPc = "top"
    /\ acceptPc' = IF shuttingDown THEN "exited" ELSE "accept"
    /\ UNCHANGED <<sockPc, shuttingDown, qStopped, conns, connIn, handlers, toRemove,
                   rawConn, naccepted>>

\* accept: ln.Accept returns a connection
Accept ==
    /\ acceptPc = "accept"
    /\ naccepted < MaxSockConns
    /\ naccepted' = naccepted + 1
    /\ rawConn' = naccepted + 1
    /\ acceptPc' = "check"
    /\ UNCHANGED <<sockPc, shuttingDown, qStopped, conns, connIn, handlers, toRemove>>

\* accept: the second isShuttingDown closes the new connection and ends the loop
AcceptCheck ==
    /\ acceptPc = "check"
    /\ acceptPc' = IF shuttingDown THEN "exited" ELSE "add"
    /\ UNCHANGED <<sockPc, shuttingDown, qStopped, conns, connIn, handlers, toRemove,
                   rawConn, naccepted>>

\* addConn
addConn(c) == conns' = conns \cup {c}

\* removeConn
removeConn(c) == conns' = conns \ {c}

\* accept: s.addConn(conn) and s.connIn <- conn
AcceptAdd ==
    /\ acceptPc = "add"
    /\ addConn(rawConn)
    /\ connIn' = Append(connIn, rawConn)
    /\ acceptPc' = "top"
    /\ UNCHANGED <<sockPc, shuttingDown, qStopped, handlers, toRemove, rawConn, naccepted>>

\* listenAndServe, case conn := <-s.connIn: go s.handleConnection(conn)
ServeConn ==
    /\ sockPc = "serving"
    /\ connIn # <<>>
    /\ handlers' = handlers \cup {Head(connIn)}
    /\ connIn' = Tail(connIn)
    /\ UNCHANGED <<sockPc, shuttingDown, qStopped, conns, toRemove, acceptPc, rawConn,
                   naccepted>>

\* handleConnection returns: its deferred function removes the connection
HandlerReturns(c) ==
    /\ c \in handlers
    /\ handlers' = handlers \ {c}
    /\ removeConn(c)
    /\ UNCHANGED <<sockPc, shuttingDown, qStopped, connIn, toRemove, acceptPc, rawConn,
                   naccepted>>

\* Socket.Stop sends on stopC, listenAndServe takes it and calls shutdown
SocketStop ==
    /\ sockPc = "serving"
    /\ sockPc' = "flag"
    /\ UNCHANGED <<shuttingDown, qStopped, conns, connIn, handlers, toRemove, acceptPc,
                   rawConn, naccepted>>

\* shutdown: s.shuttingDown = true
ShutdownFlag ==
    /\ sockPc = "flag"
    /\ shuttingDown' = TRUE
    /\ sockPc' = "qstop"
    /\ UNCHANGED <<qStopped, conns, connIn, handlers, toRemove, acceptPc, rawConn,
                   naccepted>>

\* shutdown: err := s.q.Stop()
ShutdownStopsQ ==
    /\ sockPc = "qstop"
    /\ qStopped' = TRUE
    /\ sockPc' = "snapshot"
    /\ UNCHANGED <<shuttingDown, conns, connIn, handlers, toRemove, acceptPc, rawConn,
                   naccepted>>

\* shutdown: under connMu one goroutine is started for every connection of
\* s.conns
ShutdownRange ==
    /\ sockPc = "snapshot"
    /\ toRemove' = conns
    /\ sockPc' = "removing"
    /\ UNCHANGED <<shuttingDown, qStopped, conns, connIn, handlers, acceptPc, rawConn,
                   naccepted>>

\* shutdown, the goroutine of connection c: it waits for c.done or for the
\* graceful timeout and removes the connection
ShutdownRemoves(c) ==
    /\ sockPc = "removing"
    /\ c \in toRemove
    /\ toRemove' = toRemove \ {c}
    /\ removeConn(c)
    /\ UNCHANGED <<sockPc, shuttingDown, qStopped, connIn, handlers, acceptPc, rawConn,
                   naccepted>>

\* shutdown: wg.Wait() is over, the deferred send on shutdownC lets Stop return
ShutdownReturns ==
    /\ sockPc = "removing"
    /\ toRemove = {}
    /\ sockPc' = "stopped"
    /\ UNCHANGED <<shuttingDown, qStopped, conns, connIn, handlers, toRemove, acceptPc,
                   rawConn, naccepted>>

NextK ==
    \/ AcceptTop /\ UNCHANGED <<qvars, hvars, bvars, wvars, cvars, pvars, svars, tvars, fvars>>
    \/ Accept /\ UNCHANGED <<qvars, hvars, bvars, wvars, cvars, pvars, svars, tvars, fvars>>
    \/ AcceptCheck /\ UNCHANGED <<qvars, hvars, bvars, wvars, cvars, pvars, svars, tvars, fvars>>
    \/ AcceptAdd /\ UNCHANGED <<qvars, hvars, bvars, wvars, cvars, pvars, svars, tvars, fvars>>
    \/ ServeConn /\ UNCHANGED <<qvars, hvars, bvars, wvars, cvars, pvars, svars, tvars, fvars>>
    \/ \E c \in 1..MaxSockConns :
         HandlerReturns(c) /\ UNCHANGED <<qvars, hvars, bvars, wvars, cvars, pvars, svars, tvars, fvars>>
    \/ SocketStop /\ UNCHANGED <<qvars, hvars, bvars, wvars, cvars, pvars, svars, tvars, fvars>>
    \/ ShutdownFlag /\ UNCHANGED <<qvars, hvars, bvars, wvars, cvars, pvars, svars, tvars, fvars>>
    \/ ShutdownStopsQ /\ UNCHANGED <<qvars, hvars, bvars, wvars, cvars, pvars, svars, tvars, fvars>>
    \/ ShutdownRange /\ UNCHANGED <<qvars, hvars, bvars, wvars, cvars, pvars, svars, tvars, fvars>>
    \/ \E c \in 1..MaxSockConns :
         ShutdownRemoves(c) /\ UNCHANGED <<qvars, hvars, bvars, wvars, cvars, pvars, svars, tvars, fvars>>
    \/ ShutdownReturns /\ UNCHANGED <<qvars, hvars, bvars, wvars, cvars, pvars, svars, tvars, fvars>>

\* ------------------------------------------------------------ Handlers.Stop

\* NewHandlers: shutdownC: make(chan error, 1)
ShutdownCap == 1

StopCallers == {"s1", "s2"}

\* h.servers, h.asyncQ, the queues of h.h, h.topics
Servers == {"server"}
TopicQueues == {"q_a", "q_b"}
Components == Servers \cup {"asyncQ"} \cup TopicQueues \cup {"topics"}

NoErr == "nil"

InitT ==
    /\ shutdownC = <<>>
    /\ startPc = "none"
    /\ stopPc = [c \in StopCallers |-> "idle"]
    /\ stopped = [c \in StopCallers |-> <<>>]
    /\ failed = [c \in StopCallers |-> <<>>]
    /\ firstErr = [c \in StopCallers |-> NoErr]
    /\ signals = 0

\* GoStart drains shutdownC; Start then blocks on it unless GoStart failed
HandlersStart ==
    /\ startPc # "blocked"
    /\ shutdownC' = <<>>
    /\ \E err \in BOOLEAN : startPc' = IF err THEN "returned" ELSE "blocked"
    /\ UNCHANGED <<stopPc, stopped, failed, firstErr, signals>>

\* Start: case err := <-h.shutdownC
StartReturns ==
    /\ startPc = "blocked"
    /\ shutdownC # <<>>
    /\ shutdownC' = Tail(shutdownC)
    /\ startPc' = "returned"
    /\ UNCHANGED <<stopPc, stopped, failed, firstErr, signals>>

\* a call of Stop begins
StopBegins(c) ==
    /\ stopPc[c] = "idle"
    /\ stopPc' = [stopPc EXCEPT ![c] = "running"]
    /\ UNCHANGED <<shutdownC, startPc, stopped, failed, firstErr, signals>>

\* the components Stop can turn to next: the servers, then asyncQ, then the
\* queues of h.h in the order of the map's range, then the topic registry
Remaining(sofar) ==
    LET left(S) == { x \in S : \A i \in DOMAIN sofar : sofar[i] # x } IN
    IF left(Servers) # {} THEN left(Servers)
    ELSE IF left({"asyncQ"}) # {} THEN {"asyncQ"}
    ELSE IF left(TopicQueues) # {} THEN left(TopicQueues)
    ELSE left({"topics"})

\* an error that replaces the one kept so far
KeepLastErr(old, comp, err) == IF err THEN comp ELSE old

\* if firstErr == nil { firstErr = err }
KeepFirstErr(old, comp, err) == IF err /\ old = NoErr THEN comp ELSE old

\* Stop stops its next component, which may return an error, and goes on
StopNext(c) ==
    /\ stopPc[c] = "running"
    /\ IF Remaining(stopped[c]) = {}
       THEN /\ stopPc' = [stopPc EXCEPT ![c] = "sending"]
            /\ UNCHANGED <<stopped, failed, firstErr>>
       ELSE \E comp \in Remaining(stopped[c]), err \in BOOLEAN :
            /\ stopped' = [stopped EXCEPT ![c] = Append(@, comp)]
            /\ failed' = [failed EXCEPT ![c] = IF err THEN Append(@, comp) ELSE @]
            /\ firstErr' = [firstErr EXCEPT ![c] = KeepFirstErr(@, comp, err)]
            /\ UNCHANGED stopPc
    /\ UNCHANGED <<shutdownC, startPc, signals>>

\* the deferred h.shutdownC <- nil, after which Stop returns firstErr
StopSignals(c) ==
    /\ stopPc[c] = "sending"
    /\ Len(shutdownC) < ShutdownCap
    /\ shutdownC' = Append(shutdownC, NoErr)
    /\ signals' = signals + 1
    /\ stopPc' = [stopPc EXCEPT ![c] = "returned"]
    /\ UNCHANGED <<startPc, stopped, failed, firstErr>>

NextT ==
    \/ HandlersStart /\ UNCHANGED <<qvars, hvars, bvars, wvars, cvars, pvars, svars, kvars, fvars>>
    \/ StartReturns /\ UNCHANGED <<qvars, hvars, bvars, wvars, cvars, pvars, svars, kvars, fvars>>
    \/ \E c \in StopCallers :
         StopBegins(c) /\ UNCHANGED <<qvars, hvars, bvars, wvars, cvars, pvars, svars, kvars, fvars>>
    \/ \E c \in StopCallers :
         StopNext(c) /\ UNCHANGED <<qvars, hvars, bvars, wvars, cvars, pvars, svars, kvars, fvars>>
    \/ \E c \in StopCallers :
         StopSignals(c) /\ UNCHANGED <<qvars, hvars, bvars, wvars, cvars, pvars, svars, kvars, fvars>>

\* the steps of the goroutines that are inside Stop
StopStep ==
    /\ \E c \in StopCallers : StopNext(c) \/ StopSignals(c)
    /\ UNCHANGED <<qvars, hvars, bvars, wvars, cvars, pvars, svars, kvars, fvars>>

\* ------------------------------------------------------------ client Writer

MaxWriterCalls == 3
MaxFlushes == 3

\* conf.BatchSize, counted in messages
BatchSize == 2

Callers == {"g1", "g2"}

InitF ==
    /\ batch = <<>>
    /\ wmu = "free"
    /\ flpc = "select"
    /\ flsync = FALSE
    /\ flby = "timer"
    /\ flerr = NoErr
    /\ wpc = [c \in Callers |-> "idle"]
    /\ wmsg = [c \in Callers |-> 0]
    /\ wres = [c \in Callers |-> <<>>]
    /\ flushLog = <<>>
    /\ wcalls = 0

\* shouldFlush: the batch with one more message reaches conf.BatchSize
shouldFlush(b) == Len(b) + 1 >= BatchSize

\* Write up to its first unlock: with w.mu held it either appends the message
\* and returns, or unlocks and goes to signalFlushSync
Write(c) ==
    /\ wpc[c] = "idle"
    /\ wmu = "free"
    /\ wcalls < MaxWriterCalls
    /\ wcalls' = wcalls + 1
    /\ wres' = [wres EXCEPT ![c] = <<>>]
    /\ wmsg' = [wmsg EXCEPT ![c] = wcalls + 1]
    /\ IF shouldFlush(batch)
       THEN wpc' = [wpc EXCEPT ![c] = "wsignal"] /\ UNCHANGED batch
       ELSE batch' = Append(batch, wcalls + 1) /\ UNCHANGED wpc
    /\ UNCHANGED <<wmu, flpc, flsync, flby, flerr, flushLog>>

\* Flush: signalFlushSync
Flush(c) ==
    /\ wpc[c] = "idle"
    /\ wcalls < MaxWriterCalls
    /\ wcalls' = wcalls + 1
    /\ wres' = [wres EXCEPT ![c] = <<>>]
    /\ wpc' = [wpc EXCEPT ![c] = "fsignal"]
    /\ UNCHANGED <<batch, wmu, flpc, flsync, flby, flerr, wmsg, flushLog>>

\* signalFlushSync, first select: the flusher takes the caller's send on
\* flushSyncC
SignalFlushSync(c) ==
    /\ wpc[c] \in {"wsignal", "fsignal"}
    /\ flpc = "select"
    /\ flpc' = "flush"
    /\ flsync' = TRUE
    /\ flby' = c
    /\ wpc' = [wpc EXCEPT ![c] = IF wpc[c] = "wsignal" THEN "wwait" ELSE "fwait"]
    /\ UNCHANGED <<batch, wmu, flerr, wmsg, wres, flushLog, wcalls>>

\* the flusher's select: case <-time.After(w.conf.WaitInterval)
TimerFires ==
    /\ flpc = "select"
    /\ Len(flushLog) < MaxFlushes
    /\ flpc' = "flush"
    /\ flsync' = FALSE
    /\ flby' = "timer"
    /\ UNCHANGED <<batch, wmu, flerr, wpc, wmsg, wres, flushLog, wcalls>>

\* batch.Reset() after w.Batch(batch), whatever its error
AfterFlush(b, ok) == <<>>

\* flushPending: with w.mu held an empty batch is not sent; otherwise the batch
\* is sent and reset; a sync flush then goes to signalReadySync, still holding
\* the mutex
FlushPending ==
    /\ flpc = "flush"
    /\ wmu = "free"
    /\ \E ok \in BOOLEAN :
         LET send == batch # <<>>
             res == IF send /\ ~ok THEN "err" ELSE NoErr
         IN /\ flushLog' = Append(flushLog,
                     [by |-> flby, sent |-> send, msgs |-> batch, res |-> res])
            /\ batch' = IF send THEN AfterFlush(batch, ok) ELSE batch
            /\ flerr' = res
            /\ (~send => ok)
    /\ IF flsync
       THEN flpc' = "signal" /\ wmu' = "flusher"
       ELSE flpc' = "select" /\ wmu' = "free"
    /\ UNCHANGED <<flsync, flby, wpc, wmsg, wres, wcalls>>

\* signalReadySync and signalFlushSync's second select: a waiting caller
\* receives the error from readySyncC; flushPending returns and unlocks
SignalReadySync(c) ==
    /\ flpc = "signal"
    /\ wpc[c] \in {"wwait", "fwait"}
    /\ wres' = [wres EXCEPT ![c] = Append(@, [flush |-> Len(flushLog), res |-> flerr])]
    /\ wpc' = [wpc EXCEPT ![c] = IF wpc[c] = "wwait" THEN "wrelock" ELSE "idle"]
    /\ flpc' = "select"
    /\ wmu' = "free"
    /\ UNCHANGED <<batch, flsync, flby, flerr, wmsg, flushLog, wcalls>>

\* Write after signalFlushSync: w.mu.Lock(); on an error it returns, and the
\* deferred Unlock is registered only after that return
WriteResumes(c) ==
    /\ wpc[c] = "wrelock"
    /\ wmu = "free"
    /\ wpc' = [wpc EXCEPT ![c] = "idle"]
    /\ IF Last(wres[c]).res # NoErr
       THEN wmu' = c /\ UNCHANGED batch
       ELSE wmu' = "free" /\ batch' = Append(batch, wmsg[c])
    /\ UNCHANGED <<flpc, flsync, flby, flerr, wmsg, wres, flushLog, wcalls>>

NextF ==
    \/ \E c \in Callers :
         Write(c) /\ UNCHANGED <<qvars, hvars, bvars, wvars, cvars, pvars, svars, kvars, tvars>>
    \/ \E c \in Callers :
         Flush(c) /\ UNCHANGED <<qvars, hvars, bvars, wvars, cvars, pvars, svars, kvars, tvars>>
    \/ \E c \in Callers :
         SignalFlushSync(c) /\ UNCHANGED <<qvars, hvars, bvars, wvars, cvars, pvars, svars, kvars, tvars>>
    \/ TimerFires /\ UNCHANGED <<qvars, hvars, bvars, wvars, cvars, pvars, svars, kvars, tvars>>
    \/ FlushPending /\ UNCHANGED <<qvars, hvars, bvars, wvars, cvars, pvars, svars, kvars, tvars>>
    \/ \E c \in Callers :
         SignalReadySync(c) /\ UNCHANGED <<qvars, hvars, bvars, wvars, cvars, pvars, svars, kvars, tvars>>
    \/ \E c \in Callers :
         WriteResumes(c) /\ UNCHANGED <<qvars, hvars, bvars, wvars, cvars, pvars, svars, kvars, tvars>>

\* the steps of the flusher goroutine
FlusherStep ==
    /\ TimerFires \/ FlushPending
    /\ UNCHANGED <<qvars, hvars, bvars, wvars, cvars, pvars, svars, kvars, tvars>>

\* the steps of caller c inside Write or Flush
CallerStep(c) ==
    /\ SignalFlushSync(c) \/ SignalReadySync(c) \/ WriteResumes(c)
    /\ UNCHANGED <<qvars, hvars, bvars, wvars, cvars, pvars, svars, kvars, tvars>>

vars == <<qvars, hvars, bvars, wvars, cvars, pvars, svars, kvars, tvars, fvars>>

Init == InitQ /\ InitH /\ InitB /\ InitW /\ InitC /\ InitP /\ InitS /\ InitK /\ InitT /\ InitF

SpecQ == Init /\ [][NextQ]_vars

\* the goroutines of the loop and of the listeners are scheduled; nothing
\* obliges a client to send a command or to go away
SpecQL ==
    /\ Init /\ [][NextQL]_vars
    /\ WF_vars(LoopStep) /\ WF_vars(ListenerStep)

SpecH == Init /\ [][NextH]_vars

SpecB == Init /\ [][NextB]_vars

SpecW == Init /\ [][NextW]_vars

SpecC == Init /\ [][NextC]_vars

SpecP == Init /\ [][NextP]_vars

SpecQS == Init /\ [][NextQS]_vars

SpecK == Init /\ [][NextK]_vars

SpecT == Init /\ [][NextT]_vars

\* the goroutines that are inside Stop are scheduled; nothing obliges anybody
\* to call Start
SpecTL == Init /\ [][NextT]_vars /\ WF_vars(StopStep)

SpecF == Init /\ [][NextF]_vars

\* the flusher is scheduled, and a caller that can go on again and again does
\* go on (Go's select chooses among its ready cases at random); nothing
\* obliges anybody to call Write or Flush
SpecFL ==
    /\ Init /\ [][NextF]_vars
    /\ WF_vars(FlusherStep)
    /\ \A c \in Callers : SF_vars(CallerStep(c))

\* ------------------------------------------------------------ claims

\* everything sent on the reader channel of read command ch so far
Stream(ch) == recv[ch] \o readerC[ch]

\* what the blocked handler still has to send on that channel
RECURSIVE PendingItems(_, _)
PendingItems(ops, ch) ==
    IF ops = <<>> THEN <<>>
    ELSE (IF Head(ops).op = "send" /\ Head(ops).ch = ch THEN <<Head(ops).item>> ELSE <<>>)
         \o PendingItems(Tail(ops), ch)

AllSent(ch) == Stream(ch) \o PendingItems(pending, ch)

\* the messages among items, in order: those broadcast, or all of them
RECURSIVE ToksOf(_, _)
ToksOf(items, kinds) ==
    IF items = <<>> THEN <<>>
    ELSE (IF Head(items).kind \in kinds THEN Head(items).toks ELSE <<>>)
         \o ToksOf(Tail(items), kinds)

MsgToks(items) == ToksOf(items, {"msg"})
DataToks(items) == ToksOf(items, {"msg", "chunk"})

CommittedToks(from) == [ i \in 1..(Len(committed) - from) |-> committed[from + i].tok ]

CommittedSet == { committed[i].tok : i \in DOMAIN committed }

RECURSIVE CommittedFromId(_, _)
CommittedFromId(cs, s) ==
    IF cs = <<>> THEN <<>>
    ELSE (IF Head(cs).id >= s THEN <<Head(cs).tok>> ELSE <<>>) \o CommittedFromId(Tail(cs), s)

RECURSIVE OnlyCommitted(_)
OnlyCommitted(toks) ==
    IF toks = <<>> THEN <<>>
    ELSE (IF Head(toks) \in CommittedSet THEN <<Head(toks)>> ELSE <<>>)
         \o OnlyCommitted(Tail(toks))

Registered(r) ==
    reads[r].conn \in DOMAIN subscriptions /\ subscriptions[reads[r].conn].ch = r

\* C1: the k-th successful BATCH is answered with the sum of the wire lengths
\* of the batches accepted before it, across rotation and retention and
\* whatever log writer is installed; for batches of one length this is the
\* offset the queue's test expects.
C1_BatchOffsets ==
    /\ \A k \in DOMAIN offsets : offsets[k] = SeqSum(SubSeq(lens, 1, k - 1))
    /\ (\A i \in DOMAIN lens : lens[i] = lens[1]) =>
          \A k \in 2..Len(offsets) : offsets[k] = CalcOffset(lens[1], k - 2, 1)

C1_Witness ==
    /\ Len(offsets) >= 3
    /\ parts[1].start > 0
    /\ logw = "discard"
    /\ written > 0
    /\ written < SeqSum(lens)

\* C2: a write command that is answered ERR because the store failed leaves
\* the log, and so its head, as it was before the command.
C2_StoreErrorLeavesLog ==
    [][ \A c \in CmdIds :
          (Len(RespC'[c]) > Len(RespC[c]) /\ Last(RespC'[c]).status = "ERR")
             => (log' = log /\ LogHead(log') = LogHead(log)) ]_vars

\* C3: a write command answered CLIENT_ERR has none of its messages in the log
\* and none on a reader channel.
C3_RejectedWriteLeavesNothing ==
    \A c \in CmdIds :
        (RespC[c] # <<>> /\ RespC[c][1].status = "CLIENT_ERR") =>
            /\ \A p \in DOMAIN log : log[p].tok[1] # c
            /\ \A ch \in CmdIds : \A i \in DOMAIN DataToks(AllSent(ch)) :
                  DataToks(AllSent(ch))[i][1] # c

\* C4: the messages broadcast to a registered subscription are the messages
\* committed since it was registered, in commit order and, within a command,
\* in argument order.
C4_BroadcastInCommitOrder ==
    \A conn \in DOMAIN subscriptions :
        LET ch == subscriptions[conn].ch
            since == CommittedToks(reads[ch].reg)
        IN /\ IsPrefix(MsgToks(Stream(ch)), since)
           /\ MsgToks(AllSent(ch)) = since

C4_Witness ==
    \E conn \in DOMAIN subscriptions :
        LET m == MsgToks(recv[subscriptions[conn].ch]) IN
        \E i, j \in DOMAIN m : i < j /\ m[i][1] # m[j][1]

C6_BroadcastNeverBlocks ==
    ~(pc = "blocked" /\ Head(pending).item.kind = "msg")

\* C7: a command has a response on its response channel exactly when the loop
\* has dequeued it, never more than one, and the response is the one made for
\* that command.
Dequeued(c) == c < nextCmd /\ \A i \in DOMAIN in : in[i].id # c

C7_ExactlyOneResponse ==
    \A c \in CmdIds :
        /\ Len(RespC[c]) <= 1
        /\ Dequeued(c) <=> Len(RespC[c]) = 1
        /\ \A i \in DOMAIN RespC[c] : RespC[c][i].cmd = c

C7_Witness ==
    /\ \A c \in 1..3 : Len(RespC[c]) = 1
    /\ { RespC[c][1].status : c \in 1..3 } = {"OK", "ERR", "CLIENT_ERR"}

\* C8: a BATCH, READ or TAIL with a topic that has a queue is pushed to that
\* topic's queue; a request that is not blocking, a blocking one without a
\* topic and a READ or TAIL on a topic without a queue are pushed to the
\* asyncQ; no request is pushed to two queues.
C8_Routing ==
    /\ \A p \in pushed :
         /\ (p.name \in {"BATCH", "READ", "TAIL"} /\ p.topic # "" /\ p.had) =>
               (p.topic \in DOMAIN h /\ p.q = h[p.topic] /\ p.q # AsyncQ)
         /\ (p.name \notin {"BATCH", "READ", "TAIL"} \/ p.topic = ""
               \/ (p.name \in {"READ", "TAIL"} /\ ~p.had)) => p.q = AsyncQ
    /\ \A p1, p2 \in pushed : p1.id = p2.id => p1 = p2
    /\ \A t1, t2 \in DOMAIN h : t1 # t2 => h[t1] # h[t2]

C8_Witness ==
    /\ \E p \in pushed : p.name = "READ" /\ p.topic = "a" /\ p.q = h["a"]
    /\ \E p \in pushed : p.name = "TAIL" /\ p.topic = "b" /\ p.q = AsyncQ
    /\ \E p \in pushed : p.name = "PING" /\ p.q = AsyncQ

\* C9: the topic map changes only by a BATCH for a topic without a queue; the
\* step adds one entry, a new started queue for a topic of the registry, the
\* BATCH is pushed to it, and no entry is replaced or removed.
C9_MapChangesOnlyByNewTopicBatch ==
    [][ h' # h =>
          \E t \in Threads :
            LET r == treq[t] IN
            /\ r.name = "BATCH" /\ r.topic # "" /\ r.topic \notin DOMAIN h
            /\ DOMAIN h' = DOMAIN h \cup {r.topic}
            /\ \A k \in DOMAIN h : h'[k] = h[k]
            /\ h'[r.topic] = nq + 1 /\ nq' = nq + 1
            /\ [q |-> h'[r.topic], topic |-> r.topic] \in started'
            /\ r.topic \in topics'
            /\ \E p \in pushed' \ pushed : p.id = r.id /\ p.q = h'[r.topic] ]_vars

C9_Witness ==
    /\ "b" \in DOMAIN h
    /\ \E p \in pushed : p.name = "BATCH" /\ p.topic = "b" /\ p.q = h["b"]
    /\ \E p \in pushed : p.name = "READ" /\ p.topic = "b" /\ p.q = AsyncQ

\* C10 as claimed: every BATCH for the unknown topic "b" that has returned was
\* pushed to the one queue started for "b".
C10_EveryBatchPushed ==
    \A r \in returned :
        (r.name = "BATCH" /\ r.topic = "b") =>
            /\ Cardinality({ st \in started : st.topic = "b" }) = 1
            /\ "b" \in DOMAIN h
            /\ \E p \in pushed : p.id = r.id /\ p.q = h["b"]

\* C10 amended: at most one queue is ever started for a topic; every BATCH for
\* the topic that is pushed is pushed to it; and every BATCH that returned
\* without an error of topics.add or GoStart was pushed to it.
C10_OneQueuePerTopic ==
    /\ \A tp \in Topics : Cardinality({ st \in started : st.topic = tp }) <= 1
    /\ \A p \in pushed :
         (p.name = "BATCH" /\ p.topic \in Topics) =>
             /\ p.topic \in DOMAIN h /\ p.q = h[p.topic]
             /\ [q |-> p.q, topic |-> p.topic] \in started
    /\ \A r \in returned :
         (r.name = "BATCH" /\ r.topic \in Topics /\ ~r.err) =>
             \E p \in pushed : p.id = r.id /\ p.q = h[r.topic]

C10_Witness ==
    \E p1, p2 \in pushed :
        /\ p1.name = "BATCH" /\ p1.topic = "b" /\ ~p1.had /\ p1.conc
        /\ p2.name = "BATCH" /\ p2.topic = "b" /\ p2.had /\ p2.id # p1.id
        /\ p1.q = p2.q
        /\ \E r \in returned : r.id = p2.id /\ ~r.err

\* C11: the topic-map mutex is not held by a thread whose request has been
\* forwarded to a queue and that waits for the response, so no request for
\* another topic waits for the mutex behind it.
C11_MutexOnlyAcrossLookup ==
    \A t \in Threads : tpc[t] = "wait" => mu # t

\* C12: a PING or STATS that is queued never waits for a write or a read: the
\* loop is not in the middle of a read or of a broadcast, and no write or read
\* is ahead of it in the queue.
C12_PingNeverWaits ==
    \A i \in DOMAIN in :
        in[i].name \in {"PING", "STATS"} =>
            /\ pc \notin {"waitReady", "blocked"}
            /\ \A j \in 1..(i - 1) : in[j].name \notin {"MSG", "READ", "REPLICATE"}

\* C13: nothing is pushed for a read, and no subscription is registered for
\* it, before its response has been delivered and the listener has signalled
\* ready: the first push happens in the step the handler takes after the
\* signal, and whatever is on a reader channel belongs to a read that has
\* passed that step.
C13_NoPushBeforeReady ==
    /\ [](\A ch \in CmdIds : AllSent(ch) # <<>> => reads[ch].state # "none")
    /\ [][ \A ch \in CmdIds :
             (reads[ch].state = "none"
                /\ (AllSent(ch)' # <<>> \/ reads'[ch].state # "none"))
             => (pc = "waitReady" /\ cur.id = ch /\ ready /\ Len(RespC[ch]) = 1) ]_vars

C13_Witness ==
    \E ch \in CmdIds :
        /\ reads[ch].state = "ok"
        /\ Len(recv[ch]) >= 3
        /\ recv[ch][1].kind = "env" /\ recv[ch][2].kind = "chunk"
        /\ recv[ch][3].kind = "eof"

\* the handler of read r has returned
Completed(r) == reads[r].state # "none" /\ ~(pc = "blocked" /\ cur.id = r)

\* how many items of these kinds are among items
CountKind(items, kinds) == Cardinality({ i \in DOMAIN items : items[i].kind \in kinds })

\* C14: after a READ with a limit other than 0 has completed, no subscription
\* is registered for its reader channel and nothing is broadcast to it.
C14_SubscriptionOnlyForTail ==
    \A r \in CmdIds :
        (Completed(r) /\ reads[r].limit # 0) =>
            /\ ~Registered(r)
            /\ MsgToks(AllSent(r)) = <<>>

\* C15: for a read with limit 0 no +EOF is sent and Finish is not signalled
\* while the done-signal of the read has not fired.
C15_NoEOFBeforeDone ==
    \A r \in CmdIds :
        (reads[r].state # "none" /\ reads[r].limit = 0 /\ ~done[r]) =>
            /\ CountKind(AllSent(r), {"eof"}) = 0
            /\ finished[r] = 0

\* C16: a READ with a limit other than 0 that has completed has sent exactly
\* one +EOF and signalled Finish once, and no chunk follows the +EOF.
C16_OneEOF ==
    \A r \in CmdIds :
        (Completed(r) /\ reads[r].limit # 0) =>
            /\ CountKind(Stream(r), {"eof"}) = 1
            /\ finished[r] = 1
            /\ \A i, j \in DOMAIN Stream(r) :
                  (Stream(r)[i].kind = "eof" /\ i < j) =>
                      Stream(r)[j].kind \notin {"env", "chunk"}

\* C17: a READ from s with limit n > 0 delivers no entry with an id of s + n
\* or more.
C17_ReadLimit ==
    \A r \in CmdIds :
        (reads[r].state = "ok" /\ reads[r].limit > 0) =>
            \A p \in DOMAIN log :
                (\E i \in DOMAIN ToksOf(AllSent(r), {"chunk"}) :
                    ToksOf(AllSent(r), {"chunk"})[i] = log[p].tok)
                => log[p].id < reads[r].start + reads[r].limit

\* C18: a CLOSE of a connection whose last request was a READ or TAIL that a
\* topic's queue serves is pushed to that queue.
C18_CloseToTopicQueue ==
    [][ \A t \in Threads :
          (treq'[t] # treq[t] /\ treq'[t].name = "CLOSE"
             /\ treq[t].name \in {"READ", "TAIL"}) =>
              \A p \in pushed :
                  (p.id = treq[t].id /\ p.q # AsyncQ) =>
                      \E c \in pushed' : c.id = treq'[t].id /\ c.q = p.q ]_vars

\* C19: the step that handles a CLOSE without arguments from connection c
\* answers OK, leaves no subscription for c and changes neither the other
\* subscriptions nor the log, the id counter or any reader channel; without a
\* subscription for c it changes nothing else; and a reader channel without a
\* registered subscription is never sent a message again.
C19_CloseFrame ==
    /\ [][ (pc = "idle" /\ in # <<>> /\ in' = Tail(in)
              /\ Head(in).name = "CLOSE" /\ Head(in).args = <<>>) =>
             LET c == Head(in) IN
             /\ RespC'[c.id] = << RespFor(c, Resp("OK", 0)) >>
             /\ c.conn \notin DOMAIN subscriptions'
             /\ DOMAIN subscriptions' = DOMAIN subscriptions \ {c.conn}
             /\ \A k \in DOMAIN subscriptions' : subscriptions'[k] = subscriptions[k]
             /\ log' = log /\ currID' = currID /\ committed' = committed
             /\ readerC' = readerC /\ finished' = finished /\ pc' = "idle"
             /\ c.conn \notin DOMAIN subscriptions =>
                   (subscriptions' = subscriptions /\ done' = done) ]_vars
    /\ [][ \A r \in CmdIds :
             (reads[r].state # "none" /\ ~Registered(r) /\ ~Registered(r)') =>
                 MsgToks(AllSent(r))' = MsgToks(AllSent(r)) ]_vars

C19_Witness ==
    \E r, c \in CmdIds :
        /\ r < c
        /\ reads[r].state # "none" /\ reads[r].limit = 0 /\ ~Registered(r)
        /\ reads[r].conn \notin DOMAIN subscriptions
        /\ RespC[c] # <<>> /\ RespC[c][1].status = "OK"
        /\ Len(committed) > reads[r].reg
        /\ MsgToks(AllSent(r)) = <<>>
        /\ \E i \in DOMAIN committed : committed[i].tok[1] > c

\* C20: when the listener of a tailing read has ended, because its connection
\* was closed or a write to its socket failed, the subscription of that read
\* is eventually removed, as long as the event loop runs.
C20_ClosedConnUnsubscribed ==
    \A r \in CmdIds :
        (listener[r] # "draining" /\ Registered(r))
            ~> (~Registered(r) \/ pc \in {"stopped", "panicked"})

\* the reads of connection conn that doRead has registered
ReadsOf(conn) == { r \in CmdIds : reads[r].state # "none" /\ reads[r].conn = conn }

\* how often the message tok was broadcast to the reader channels of conn
Deliveries(conn, tok) ==
    UNION { LET m == MsgToks(AllSent(r))
            IN { <<r, i>> : i \in { j \in DOMAIN m : m[j] = tok } } : r \in ReadsOf(conn) }

\* C21: the subscription set holds at most one subscription per connection,
\* that of the connection's latest streaming read, and every committed message
\* is broadcast at most once to a connection, however many reads it issued.
C21_OneSubscriptionPerConn ==
    /\ \A k1, k2 \in DOMAIN subscriptions :
          reads[subscriptions[k1].ch].conn = reads[subscriptions[k2].ch].conn => k1 = k2
    /\ \A k \in DOMAIN subscriptions :
          \A r \in ReadsOf(reads[subscriptions[k].ch].conn) : r <= subscriptions[k].ch
    /\ \A conn \in Conns : \A i \in DOMAIN committed :
          Cardinality(Deliveries(conn, committed[i].tok)) <= 1

C21_Witness ==
    \E r1, r2 \in CmdIds :
        /\ r1 < r2 /\ r1 \in ReadsOf("c1") /\ r2 \in ReadsOf("c1")
        /\ Cardinality(DOMAIN subscriptions) = 1
        /\ Registered(r2)
        /\ \E i \in DOMAIN committed :
              /\ committed[i].tok[1] > r2
              /\ Cardinality(Deliveries("c1", committed[i].tok)) = 1
              /\ MsgToks(recv[r2]) = << committed[i].tok >>
              /\ MsgToks(AllSent(r1)) = <<>>

\* C22: a failure of the store inside a handler never ends the event loop, and
\* the request that failed is answered ERR.
C22_HandlerFailureKeepsLoop ==
    /\ pc # "panicked"
    /\ \A r \in CmdIds :
          reads[r].state \in {"notfound", "itererr"} =>
              (RespC[r] # <<>> /\ Last(RespC[r]).status = "ERR")

\* C23: once a SHUTDOWN has been answered OK and the store is closed, the loop
\* takes no further command from the queue and nothing is written to the log.
C23_ShutdownStopsQueue ==
    [][ ~logOpen => (Len(in') >= Len(in) /\ log' = log) ]_vars

\* C24: a command whose deadline has passed when the loop dequeues it is
\* answered ERR and its handler is not run: the step changes nothing but the
\* queue and the response; and a caller whose deadline has passed does not
\* stay in PushCommand for ever.
C24_DeadlineHonoured ==
    /\ [][ (pc = "idle" /\ in # <<>> /\ in' = Tail(in) /\ Head(in).id \in expired) =>
             LET c == Head(in) IN
             /\ RespC'[c.id] = << RespFor(c, Resp("ERR", 0)) >>
             /\ pc' = "idle"
             /\ log' = log /\ currID' = currID /\ logOpen' = logOpen
             /\ subscriptions' = subscriptions /\ readerC' = readerC ]_vars
    /\ \A c \in CmdIds : (c \in expired /\ RespC[c] = <<>>) ~> (RespC[c] # <<>>)

\* the names of the partition files: their starting offsets
Starts(ps) == { ps[i].start : i \in DOMAIN ps }

\* C25: after any sequence of appends there are at most MaxPartitions + 1
\* partitions, in the order of their starting offsets; a partition that an
\* append unlinks is older than every partition that remains, and the
\* partition written to is the newest and is never unlinked.
C25_Retention ==
    /\ [](/\ Len(parts) >= 1
          /\ Len(parts) <= MaxPartitions + 1
          /\ \A i, j \in DOMAIN parts : i < j => parts[i].start < parts[j].start)
    /\ [][ /\ \A s \in Starts(parts) \ Starts(parts') :
                \A k \in Starts(parts') : s < k
           /\ Last(parts').start >= Last(parts).start
           /\ Last(parts').size > 0 => HeadOffset(parts') >= HeadOffset(parts)
           /\ Starts(parts') \ Starts(parts) \subseteq {HeadOffset(parts)} ]_vars

C25_Witness ==
    /\ Len(parts) = MaxPartitions
    /\ parts[1].start > 0
    /\ offsets # <<>> /\ offsets[1] < parts[1].start
    /\ Last(parts).size > 0
    /\ Last(offsets) >= Last(parts).start

\* C26: no batch is split across partitions. Every accepted batch that is
\* still stored lies whole in one partition, no partition is larger than
\* PartitionSize, and every partition starts at the offset of a batch; an
\* append creates a new partition exactly when the batch does not fit into
\* the current one, and the batch is then the first of the new partition.
C26_NoSplit ==
    /\ [](/\ \A i \in DOMAIN parts :
                /\ parts[i].size <= PartitionSize
                /\ parts[i].start = 0 \/ \E k \in DOMAIN offsets : offsets[k] = parts[i].start
          /\ \A k \in DOMAIN offsets :
                offsets[k] >= parts[1].start =>
                    \E i \in DOMAIN parts :
                        /\ parts[i].start <= offsets[k]
                        /\ offsets[k] + lens[k] <= parts[i].start + parts[i].size)
    /\ [][ Len(offsets') > Len(offsets) =>
             LET n == Last(lens') IN
             IF Last(parts).size + n > PartitionSize
             THEN Last(parts') = [start |-> Last(offsets'), size |-> n]
             ELSE Last(parts') = [start |-> Last(parts).start, size |-> Last(parts).size + n]
           ]_vars

C26_Witness ==
    \E i \in DOMAIN parts :
        /\ i < Len(parts)
        /\ parts[i].size > 0 /\ parts[i].size < PartitionSize
        /\ parts[i + 1].start = parts[i].start + parts[i].size
        /\ \E k \in DOMAIN offsets :
              offsets[k] = parts[i + 1].start /\ lens[k] + parts[i].size > PartitionSize

\* C27: every envelope announces the number of lines the reader pushed after
\* it delivers, whatever the seek position and the limit of the file, and a
\* client that counts the announced length never takes an envelope for a
\* log line.
C27_EnvelopeMatchesPayload ==
    /\ \A i \in DOMAIN sentChunks : sentChunks[i].n = sentChunks[i].payload
    /\ serr # "errInvalidProtocolLine"

\* C28: when Scan needs a chunk envelope and the next line does not start
\* with '+', Scan returns false, Error() is errInvalidFirstByte and no message
\* is made of the line.
C28_InvalidFirstByteIsFatal ==
    [][ (spc = "scanning" /\ chunkEnd <= 0 /\ wire # <<>> /\ Head(wire).kind = "msg"
            /\ Len(wire') < Len(wire)) =>
          (spc' = "done" /\ serr' = "errInvalidFirstByte" /\ scanned' = scanned) ]_vars

\* the protocol errors of a request
ProtocolErrors == {"malformed", "crc", "badarity"}

\* C29: after a protocol error on a connection the handler goes on to answer
\* it, the answer written is CLIENT_ERR, and the handler then reads the next
\* command from the connection.
C29_ProtocolErrorKeepsConn ==
    [][ /\ (cpc = "read" /\ Len(heard') > Len(heard) /\ Last(heard') \in ProtocolErrors)
              => cpc' = "exec"
        /\ (cpc = "exec" /\ Last(heard) \in ProtocolErrors /\ Len(wrote') > Len(wrote))
              => (Last(wrote') = "CLIENT_ERR" /\ cpc' = "read") ]_vars

\* the names the loop's switch has a case for
DispatchTable ==
    {"MSG", "REPLICATE", "RAWMSG", "READ", "HEAD", "STATS", "PING", "CLOSE", "SLEEP",
     "SHUTDOWN"}

\* the handler of the command rejects the number of its arguments
WrongArity(c) ==
    CASE c.name = "MSG" -> Len(c.args) = 0
      [] c.name = "READ" -> Len(c.args) # 2
      [] c.name \in {"REPLICATE", "SLEEP"} -> Len(c.args) # 1
      [] c.name \in {"HEAD", "STATS", "PING", "CLOSE"} -> Len(c.args) # 0
      [] OTHER -> FALSE

\* C30: the step that dequeues a command with a wrong number of arguments, or
\* with a name the switch has no case for, answers CLIENT_ERR and changes
\* neither the log nor the id counter nor the subscriptions.
C30_InvalidAnsweredClientErr ==
    [][ (pc = "idle" /\ in # <<>> /\ in' = Tail(in)
           /\ (WrongArity(Head(in)) \/ Head(in).name \notin DispatchTable)) =>
          LET c == Head(in) IN
          /\ RespC'[c.id] = << RespFor(c, Resp("CLIENT_ERR", 0)) >>
          /\ log' = log /\ currID' = currID /\ subscriptions' = subscriptions ]_vars


\* C31: in the package-level eventQ a subscriber receives the broadcast
\* messages in commit order: every message of an earlier write command comes
\* before any message of a later one, however the goroutines are scheduled
C31_BroadcastInCommitOrder ==
    \A c \in PkgConns : \A i, j \in 1..Len(got[c]) :
        (i < j /\ got[c][i].cmd > 0 /\ got[c][j].cmd > 0)
            => got[c][i].cmd <= got[c][j].cmd


\* C32: the event queue never sends on a reader channel that the listener has
\* closed: the loop is never ended by the panic of a send of publishMessages
\* or sendChunk on the ReaderC that handleSubscriber closed
C32_NoSendOnClosedReaderC ==
    ~ ( /\ pc = "panicked"
        /\ pending # <<>>
        /\ Head(pending).op = "send"
        /\ listener[Head(pending).ch] = "cancelled" )


\* C33: for every READ whose response the event queue has delivered the
\* listener eventually signals ready, so that the loop does not stay in
\* WaitForReady, whatever path the listener takes after the response
C33_ListenerSignalsReady == (pc = "waitReady") ~> ready


\* C34: whenever the loop is between commands currID is the head of the log
\* plus one, and no id is given to two different messages written to the log
C34_CurrIDFollowsHead ==
    /\ pc = "idle" => currID = LogHead(log) + 1
    /\ \A p1, p2 \in DOMAIN log : log[p1].id = log[p2].id => p1 = p2


\* C35: when EventQ.Stop has returned the loop goroutine has exited, also when
\* Stop was called while the loop was inside a handler
C35_StopEndsLoop == stopReturned => pc \in {"stopped", "panicked"}


\* the reads of connection conn whose handleSubscriber goroutine is running
Subscribers(conn) ==
    { r \in CmdIds : /\ reads[r].state # "none" /\ reads[r].conn = conn
                     /\ listener[r] = "draining" }

\* C36: the handleSubscriber goroutine of a bounded READ ends once the +EOF
\* has been forwarded to the client, so a connection never has more than one
\* subscriber goroutine, however many READs it issues
C36_OneSubscriberGoroutine ==
    /\ \A r \in CmdIds :
          (/\ reads[r].state # "none" /\ reads[r].limit # 0
           /\ \E i \in DOMAIN recv[r] : recv[r][i] = EOFItem)
             => listener[r] # "draining"
    /\ \A conn \in Conns : Cardinality(Subscribers(conn)) <= 1


\* C37: when Socket.Stop returns the shutdown is complete: shuttingDown is set,
\* the event queue's Stop has been called and the connection set is empty,
\* whatever accept() and the connection handlers do meanwhile
C37_StopCompletesShutdown ==
    sockPc = "stopped" => (shuttingDown /\ qStopped /\ conns = {})


\* the place of a component in the order of Stop
StopRank(x) ==
    IF x \in Servers THEN 1 ELSE IF x = "asyncQ" THEN 2
    ELSE IF x \in TopicQueues THEN 3 ELSE 4

\* C38: a call of Stop that has gone through its components has stopped every
\* one of them once, in the order servers, asyncQ, per-topic queues, topic
\* registry, also after failures; it returns the first error met; and a call
\* that has returned has sent its signal on shutdownC
C38_StopStopsAll ==
    /\ \A c \in StopCallers :
          stopPc[c] \in {"sending", "returned"} =>
             /\ Len(stopped[c]) = Cardinality(Components)
             /\ { stopped[c][i] : i \in DOMAIN stopped[c] } = Components
             /\ \A i, j \in DOMAIN stopped[c] :
                   i < j => StopRank(stopped[c][i]) <= StopRank(stopped[c][j])
             /\ firstErr[c] = IF failed[c] = <<>> THEN NoErr ELSE Head(failed[c])
    /\ signals = Cardinality({ c \in StopCallers : stopPc[c] = "returned" })

C38_Witness ==
    /\ stopPc["s1"] = "returned"
    /\ Len(failed["s1"]) >= 2
    /\ Head(failed["s1"]) = "server"
    /\ stopped["s1"][Len(stopped["s1"])] = "topics"
    /\ startPc = "returned"
    /\ signals = 1

\* C39: every call of Handlers.Stop terminates, also a second call made when
\* nothing has drained shutdownC since the first
C39_StopTerminates ==
    \A c \in StopCallers : (stopPc[c] # "idle") ~> (stopPc[c] = "returned")


\* the flushes whose batch was sent
SentFlushes == { i \in DOMAIN flushLog : flushLog[i].sent }

\* what holds of the Writer in every state: the batch is empty while a sync
\* flush holds the mutex, an empty batch is never sent, no message is sent in
\* two batches, and a call has at most one result, that of its own flush
WriterSafe ==
    /\ flpc = "signal" => batch = <<>>
    /\ \A i \in SentFlushes : flushLog[i].msgs # <<>>
    /\ \A i, j \in SentFlushes : \A k \in DOMAIN flushLog[i].msgs :
          (\E l \in DOMAIN flushLog[j].msgs : flushLog[j].msgs[l] = flushLog[i].msgs[k])
             => i = j
    /\ \A c \in Callers :
          /\ Len(wres[c]) <= 1
          /\ \A k \in DOMAIN wres[c] :
                /\ flushLog[wres[c][k].flush].by = c
                /\ flushLog[wres[c][k].flush].res = wres[c][k].res

\* C40: every flush leaves the batch empty, an empty batch is never sent, and
\* each Flush call and each Write that triggers a flush receives exactly one
\* result, the result of the flush it triggered
C40_FlushResults ==
    /\ []WriterSafe
    /\ \A c \in Callers :
          (wpc[c] \in {"wsignal", "wwait", "fsignal", "fwait"})
             ~> (wpc[c] \in {"idle", "wrelock"} /\ Len(wres[c]) = 1)

=============================================================================
